---- MODULE Spec2Model ----
(***************************************************************************)
(* PolicyFlow: the document store (SQLite behind one connection), the      *)
(* authentication middleware and the HTTP handlers for policies, users and *)
(* departments.                                                            *)
(*                                                                         *)
(* The store executes one SQL statement at a time (SetMaxOpenConns(1)) and *)
(* no handler opens a transaction, so a handler is a sequence of atomic    *)
(* statements; requests run on their own goroutines and interleave between *)
(* statements.  Each action below is one statement of one handler together *)
(* with the local computation that follows it up to the next statement or  *)
(* the response.                                                           *)
(*                                                                         *)
(* Not modelled: the legacy free-text policies.department column, the     *)
(* names of users, descriptions, e-mail addresses (and their UNIQUE        *)
(* constraint) and created_at values; rows of policies,                    *)
(* policy_versions and acknowledgements are kept in insertion order.       *)
(***************************************************************************)
EXTENDS Integers, Sequences, FiniteSets, TLC

VARIABLES
  users,         \* table users: id -> [role, department_id, created_by]
  departments,   \* table departments: id -> name
  policies,      \* table policies, in insertion order; the id is the index
  versions,      \* table policy_versions, in insertion order; the id is the index
  acks,          \* table acknowledgements, in insertion order
  tokens,        \* session JWTs issued so far: [sub, role]
  req,           \* the request each client connection has in flight, or its last response
  schema,        \* the tables and columns that are there beside those of DB.Init
  schema_migrations,  \* table schema_migrations: the names recorded
  executed,      \* how often db.conn.Exec(m.sql) has been called, per migration name
  migrate        \* the Migrate invocation of the starting process: [pc, i, result]

vars == <<users, departments, policies, versions, acks, tokens, req,
          schema, schema_migrations, executed, migrate>>
store == <<users, departments, policies, versions, acks>>
migration == <<schema, schema_migrations, executed, migrate>>

\* ------------------------------------------------------------------ bounds

MaxPolicies == 1
MaxVersions == 2
MaxExecutions == 2   \* calls of Exec(m.sql) counted per migration

\* --------------------------------------------------------------- constants

Null == "null"                 \* a nil *string / SQL NULL
RoleSuperAdmin == "SuperAdmin"
RoleDeptAdmin == "DeptAdmin"
RoleStaff == "Staff"
validRoles == {RoleSuperAdmin, RoleDeptAdmin, RoleStaff}
validStatuses == {"Draft", "Review", "Published", "Archived"}
validVis == {"organization", "department"}

UserIds == {"u1", "u2", "u3", "u4"}
DeptIds == {"d1", "d2"}
DeptNames == {"n1", "n2"}
Slots == {"r1", "r2"}

\* What a request body may carry.  "" is an omitted (or empty) string field,
\* Null an omitted (or null) pointer field; "bogus" and "dx" stand for a value
\* outside the valid set and for the id of no department.
VisInputs == {"", "bogus"} \cup validVis
DeptInputs == {Null, "dx"} \cup DeptIds
ContentInputs == {"", "c1"}
VersionStringInputs == {"", "v1"}

\* A decoded JSON body; bad = c.Bind returned an error.
NoBody ==
  [bad |-> FALSE, changelog |-> "", content |-> "", department_id |-> Null, email |-> "",
   name |-> "", role |-> "", status |-> "", title |-> "", version_string |-> "",
   visibility_type |-> ""]
BadBody == [NoBody EXCEPT !.bad = TRUE]

NoPolicy ==
  [current_version_id |-> 0, department_id |-> Null, status |-> "", title |-> "",
   visibility_type |-> ""]
NoUser == [created_by |-> Null, department_id |-> Null, role |-> ""]
NoStats ==
  [archived_count |-> 0, draft_count |-> 0, published_count |-> 0, review_count |-> 0,
   total_acknowledgements |-> 0, total_policies |-> 0, total_users |-> 0]

\* A connection with no request yet.  (Record constants list their fields in
\* alphabetical order, the order TLC keeps them in.)
Idle ==
  [acked |-> FALSE,      \* the acknowledged flag of a Get response
   body |-> NoBody,      \* the bound body
   code |-> 0,           \* the response's status code
   content |-> "",       \* the content of the current version in a Get response
   count |-> 0,          \* the result of CountSuperAdmins the handler has read
   dept |-> Null,        \* echo context: user_dept_id
   deptset |-> FALSE,    \* echo context: whether user_dept_id was set at all
   list |-> {},          \* the items of a List, Versions or AdminStats response
   op |-> "none",        \* the handler
   pc |-> "idle",        \* the statement it is at
   pid |-> 0,            \* c.Param("id") of a policy route
   pol |-> NoPolicy,     \* the policies row the handler has read
   role |-> "",          \* echo context: user_role
   seen |-> 0,           \* client side: newest version id a Versions response showed
   stats |-> NoStats,    \* the stats of an AdminStats response
   tdid |-> Null,        \* c.Param("id") of a department route
   tgt |-> NoUser,       \* the users row the handler has read
   tuid |-> Null,        \* c.Param("id") of a user route
   uid |-> Null,         \* echo context: user_id
   vid |-> 0]            \* id of the policy_versions row the handler inserted

\* The handler returns with this status code.
Done(r, code) == [r EXCEPT !.pc = "done", !.code = code]

\* ---------------------------------------------------------- DB.Migrate

\* allMigrations: the name and the statement of each migration, in list order.
allMigrations ==
  <<[name |-> "001_create_departments",
     sql |-> [add |-> "departments", kind |-> "CREATE TABLE IF NOT EXISTS"]],
    [name |-> "002_users_add_department_id",
     sql |-> [add |-> "users.department_id", kind |-> "ALTER TABLE ADD COLUMN"]],
    [name |-> "003_policies_add_department_id",
     sql |-> [add |-> "policies.department_id", kind |-> "ALTER TABLE ADD COLUMN"]],
    [name |-> "004_policies_add_visibility_type",
     sql |-> [add |-> "policies.visibility_type", kind |-> "ALTER TABLE ADD COLUMN"]],
    [name |-> "005_roles_rename_admin_to_superadmin",
     sql |-> [add |-> "", kind |-> "UPDATE users SET role"]]>>

MigrationIds == 1 .. Len(allMigrations)
MigrationNames == {allMigrations[i].name : i \in MigrationIds}

\* ALTER TABLE ... ADD COLUMN fails with "duplicate column name" when the column
\* is there; CREATE TABLE IF NOT EXISTS and UPDATE do not fail.
ExecFails(sql) == sql.kind = "ALTER TABLE ADD COLUMN" /\ sql.add \in schema

\* The tables and columns after the statement.
ExecSchema(sql) == IF sql.add = "" THEN schema ELSE schema \cup {sql.add}

\* The users rows after the statement: migration 005 renames the role Admin.
ExecUsers(sql) ==
  IF sql.kind = "UPDATE users SET role"
  THEN [u \in DOMAIN users |->
          IF users[u].role = "Admin" THEN [users[u] EXCEPT !.role = RoleSuperAdmin]
          ELSE users[u]]
  ELSE users

\* No invocation is running; result tells how the last one ended.
Stopped(result) == [i |-> 0, pc |-> "stopped", result |-> result]

\* The loop goes on to the migration after the i-th, or Migrate returns nil.
Continue(i) ==
  IF i < Len(allMigrations)
  THEN [i |-> i + 1, pc |-> "select", result |-> "running"]
  ELSE Stopped("nil")

\* The database of a serving process: Migrate has returned nil, once, on a
\* fresh database.
Serving ==
  /\ schema = {"schema_migrations"} \cup
              ({allMigrations[i].sql.add : i \in MigrationIds} \ {""})
  /\ schema_migrations = MigrationNames
  /\ executed = [n \in MigrationNames |-> 1]
  /\ migrate = Stopped("nil")

\* main calls db.Migrate() when the process starts.
MigrateStart ==
  /\ migrate.pc = "stopped"
  /\ migrate' = [i |-> 0, pc |-> "create", result |-> "running"]
  /\ UNCHANGED <<store, tokens, req, schema, schema_migrations, executed>>

\* CREATE TABLE IF NOT EXISTS schema_migrations.
MigrateCreateTable ==
  /\ migrate.pc = "create"
  /\ schema' = schema \cup {"schema_migrations"}
  /\ migrate' = Continue(0)
  /\ UNCHANGED <<store, tokens, req, schema_migrations, executed>>

\* SELECT name FROM schema_migrations WHERE name = ?: a row found is
\* "already applied" and the loop continues, anything else leads to the Exec.
MigrateSelect ==
  /\ migrate.pc = "select"
  /\ migrate' = IF allMigrations[migrate.i].name \in schema_migrations
                THEN Continue(migrate.i)
                ELSE [migrate EXCEPT !.pc = "exec"]
  /\ UNCHANGED <<store, tokens, req, schema, schema_migrations, executed>>

\* db.conn.Exec(m.sql); an error is returned to main.
MigrateExec ==
  /\ migrate.pc = "exec"
  /\ LET m == allMigrations[migrate.i] IN
     /\ executed[m.name] < MaxExecutions
     /\ executed' = [executed EXCEPT ![m.name] = @ + 1]
     /\ IF ExecFails(m.sql)
        THEN /\ migrate' = Stopped("error")
             /\ UNCHANGED <<schema, users>>
        ELSE /\ schema' = ExecSchema(m.sql)
             /\ users' = ExecUsers(m.sql)
             /\ migrate' = [migrate EXCEPT !.pc = "insert"]
  /\ UNCHANGED <<departments, policies, versions, acks, tokens, req, schema_migrations>>

\* INSERT INTO schema_migrations (name, applied_at); the SELECT of the same
\* invocation found no row of this name, so the primary key holds.
MigrateInsert ==
  /\ migrate.pc = "insert"
  /\ schema_migrations' = schema_migrations \cup {allMigrations[migrate.i].name}
  /\ migrate' = Continue(migrate.i)
  /\ UNCHANGED <<store, tokens, req, schema, executed>>

\* The process is killed between two statements.
MigrateCrash ==
  /\ migrate.pc # "stopped"
  /\ migrate' = Stopped("crash")
  /\ UNCHANGED <<store, tokens, req, schema, schema_migrations, executed>>

\* -------------------------------------------------------------- the store

PolicyIds == 1 .. Len(policies)
VersionIds == 1 .. Len(versions)

\* FOREIGN KEY ... REFERENCES departments(id), with PRAGMA foreign_keys = ON.
DepartmentFK(d) == d = Null \/ d \in DOMAIN departments

GetPolicyFound(id) == id \in PolicyIds
GetPolicy(id) == policies[id]

CreatePolicy(title, departmentID, visibilityType) ==
  [current_version_id |-> 0, department_id |-> departmentID, status |-> "Draft",
   title |-> title, visibility_type |-> visibilityType]

UpdatePolicy(id, title, status, departmentID, visibilityType) ==
  [policies EXCEPT ![id] =
     [@ EXCEPT !.title = title, !.status = status,
               !.department_id = departmentID, !.visibility_type = visibilityType]]

\* The UPDATE without its WHERE clause.
SetPolicyCurrentVersionOfAll(policyID, versionID) ==
  [p \in PolicyIds |-> [policies[p] EXCEPT !.current_version_id = versionID]]

SetPolicyCurrentVersion(policyID, versionID) ==
  [policies EXCEPT ![policyID].current_version_id = versionID]

CreatePolicyVersion(policyID, content, versionString, changelog) ==
  [changelog |-> changelog, content |-> content, policy_id |-> policyID,
   version_string |-> versionString]

\* The count taken over the rows of every user.
HasAcknowledgedByAnyone(userID, policyVersionID) ==
  \E i \in DOMAIN acks : acks[i].policy_version_id = policyVersionID

\* db.HasAcknowledged: SELECT COUNT(*) ... > 0.
HasAcknowledged(userID, policyVersionID) ==
  \E i \in DOMAIN acks :
    acks[i].user_id = userID /\ acks[i].policy_version_id = policyVersionID

\* db.GetPolicyVersion finds the row.
GetPolicyVersionFound(id) == id \in VersionIds

\* The query with no test of department_id in its second branch.
ListPoliciesForUserAnyDepartment(role, deptID) ==
  IF role = "SuperAdmin" THEN PolicyIds
  ELSE IF deptID # Null
  THEN {p \in PolicyIds : policies[p].visibility_type \in {"organization", "department"}}
  ELSE {p \in PolicyIds : policies[p].visibility_type = "organization"}

\* db.ListPoliciesForUser: the ids of the rows the role and department select.
ListPoliciesForUser(role, deptID) ==
  IF role = "SuperAdmin" THEN PolicyIds
  ELSE IF deptID # Null
  THEN {p \in PolicyIds :
          \/ policies[p].visibility_type = "organization"
          \/ (policies[p].visibility_type = "department" /\ policies[p].department_id = deptID)}
  ELSE {p \in PolicyIds : policies[p].visibility_type = "organization"}

\* The map that keeps a policy acknowledged across its versions.
AckStatusForUserAnyVersion(userID) ==
  {v \in DOMAIN versions :
     \E i \in DOMAIN acks :
       /\ acks[i].user_id = userID
       /\ versions[acks[i].policy_version_id].policy_id = versions[v].policy_id}

\* db.AckStatusForUser: the version ids of the caller's acknowledgements.
AckStatusForUser(userID) ==
  {acks[i].policy_version_id : i \in {j \in DOMAIN acks : acks[j].user_id = userID}}

\* ---------------------------------------------------------- the middleware

DeptAdminRoutes ==
  {"PolicyCreate", "PolicyUpdate", "PolicyCreateVersion", "UserCreate", "AdminStats"}
SuperAdminRoutes ==
  {"DepartmentsCreate", "DepartmentsUpdate", "DepartmentsDelete", "UserUpdate", "UserDelete"}

RequireDeptAdmin(role) == role \in {RoleSuperAdmin, RoleDeptAdmin}
RequireSuperAdmin(role) == role = RoleSuperAdmin

\* The role middleware of the route group of op.
RouteAllows(op, role) ==
  IF op \in SuperAdminRoutes THEN RequireSuperAdmin(role)
  ELSE IF op \in DeptAdminRoutes THEN RequireDeptAdmin(role)
  ELSE TRUE

\* Auth.Require: role and subject from the token, department_id from the users row.
Require(tok) ==
  [dept |-> IF tok.sub \in DOMAIN users THEN users[tok.sub].department_id ELSE Null,
   deptset |-> tok.sub \in DOMAIN users,
   role |-> tok.role, uid |-> tok.sub]

\* A request arrives on connection s: Require, then the route's role middleware.
Begin(s, tok, op, pid, tuid, tdid) ==
  /\ req[s].pc = "idle"
  /\ LET c == Require(tok)
         r == [Idle EXCEPT !.op = op, !.pc = op, !.uid = c.uid, !.role = c.role,
                           !.dept = c.dept, !.deptset = c.deptset, !.pid = pid, !.tuid = tuid, !.tdid = tdid,
                           !.seen = req[s].seen]
     IN req' = [req EXCEPT ![s] = IF RouteAllows(op, c.role) THEN r ELSE Done(r, 403)]
  /\ UNCHANGED <<store, tokens, migration>>

\* The client has read the response; its connection is free for the next request.
Finish(s) ==
  /\ req[s].pc = "done"
  /\ req' = [req EXCEPT ![s] = [Idle EXCEPT !.seen = req[s].seen]]
  /\ UNCHANGED <<store, tokens, migration>>

\* ---------------------------------------------------------- Policy.Create

PolicyCreateBodies(titles) ==
  {BadBody} \cup
  {[NoBody EXCEPT !.title = t, !.visibility_type = v, !.department_id = d] :
     t \in titles, v \in VisInputs, d \in DeptInputs}

DefaultVis(v) == IF v = "" THEN "organization" ELSE v

\* The response decided before the INSERT; 0 when the handler goes on.
PolicyCreateReject(r, b) ==
  IF b.bad \/ b.title = "" THEN 400
  ELSE IF DefaultVis(b.visibility_type) \notin validVis THEN 400
  ELSE IF r.role = RoleDeptAdmin /\ r.dept = Null THEN 403
  ELSE 0

\* The row without the override of a DeptAdmin's fields.
PolicyCreateRowAsSent(r, b) ==
  CreatePolicy(b.title, b.department_id, DefaultVis(b.visibility_type))

\* The row Policy.Create hands to db.CreatePolicy.
PolicyCreateRow(r, b) ==
  IF r.role = RoleDeptAdmin
  THEN CreatePolicy(b.title, r.dept, "department")
  ELSE CreatePolicy(b.title, b.department_id, DefaultVis(b.visibility_type))

PolicyCreate(s, bodies) ==
  /\ req[s].pc = "PolicyCreate"
  /\ \E b \in bodies :
       LET r == [req[s] EXCEPT !.body = b]
           code == PolicyCreateReject(r, b)
           row == PolicyCreateRow(r, b)
       IN IF code # 0
          THEN /\ req' = [req EXCEPT ![s] = Done(r, code)]
               /\ UNCHANGED policies
          ELSE IF ~DepartmentFK(row.department_id)
          THEN /\ req' = [req EXCEPT ![s] = Done(r, 500)]
               /\ UNCHANGED policies
          ELSE /\ Len(policies) < MaxPolicies
               /\ policies' = Append(policies, row)
               /\ req' = [req EXCEPT ![s] = Done([r EXCEPT !.pid = Len(policies) + 1], 201)]
  /\ UNCHANGED <<users, departments, versions, acks, tokens, migration>>

\* ---------------------------------------------------------- Policy.Update

PolicyUpdateBodies(titles, statuses) ==
  {BadBody} \cup
  {[NoBody EXCEPT !.title = t, !.status = st, !.visibility_type = v, !.department_id = d] :
     t \in titles, st \in statuses, v \in VisInputs, d \in DeptInputs}

PolicyUpdateForbiddenNoDepartment(role, callerDeptID, policy) ==
  role = RoleDeptAdmin /\ callerDeptID = Null

\* "DeptAdmin can only update their own department's policies."
PolicyUpdateForbidden(role, callerDeptID, policy) ==
  /\ role = RoleDeptAdmin
  /\ \/ callerDeptID = Null
     \/ policy.department_id = Null
     \/ callerDeptID # policy.department_id

PolicyUpdateEffectiveNoClamp(role, callerDeptID, policy, b) ==
  [department_id |->
     IF b.department_id = Null THEN policy.department_id ELSE b.department_id,
   status |-> IF b.status = "" THEN policy.status ELSE b.status,
   title |-> IF b.title = "" THEN policy.title ELSE b.title,
   visibility_type |->
     IF b.visibility_type = "" THEN policy.visibility_type ELSE b.visibility_type]

\* The defaults and the clamp of a handler that takes no policy out of Archived.
PolicyUpdateEffectiveArchivedFinal(role, callerDeptID, policy, b) ==
  [PolicyUpdateEffectiveNoClamp(role, callerDeptID, policy, b) EXCEPT
     !.department_id = IF role = RoleDeptAdmin THEN callerDeptID ELSE @,
     !.status = IF policy.status = "Archived" THEN policy.status ELSE @,
     !.visibility_type = IF role = RoleDeptAdmin THEN "department" ELSE @]

\* The body after "apply defaults from existing data" and the DeptAdmin clamp.
PolicyUpdateEffective(role, callerDeptID, policy, b) ==
  [department_id |->
     IF role = RoleDeptAdmin THEN callerDeptID
     ELSE IF b.department_id = Null THEN policy.department_id ELSE b.department_id,
   status |-> IF b.status = "" THEN policy.status ELSE b.status,
   title |-> IF b.title = "" THEN policy.title ELSE b.title,
   visibility_type |->
     IF role = RoleDeptAdmin THEN "department"
     ELSE IF b.visibility_type = "" THEN policy.visibility_type ELSE b.visibility_type]

\* GetPolicy, the department guard, Bind, the defaults, the clamp, the status check.
PolicyUpdateGet(s, bodies) ==
  /\ req[s].pc = "PolicyUpdate"
  /\ LET r0 == req[s] IN
     IF ~GetPolicyFound(r0.pid)
     THEN req' = [req EXCEPT ![s] = Done(r0, 404)]
     ELSE LET r1 == [r0 EXCEPT !.pol = GetPolicy(r0.pid)] IN
          IF PolicyUpdateForbidden(r1.role, r1.dept, r1.pol)
          THEN req' = [req EXCEPT ![s] = Done(r1, 403)]
          ELSE \E b \in bodies :
                 LET r == [r1 EXCEPT !.body = b]
                     e == PolicyUpdateEffective(r.role, r.dept, r.pol, b)
                 IN req' = [req EXCEPT ![s] =
                              IF b.bad \/ e.status \notin validStatuses
                              THEN Done(r, 400)
                              ELSE [r EXCEPT !.pc = "PolicyUpdateWrite"]]
  /\ UNCHANGED <<store, tokens, migration>>

\* db.UpdatePolicy; the GetPolicy after it only fills the response body.
PolicyUpdateWrite(s) ==
  /\ req[s].pc = "PolicyUpdateWrite"
  /\ LET r == req[s]
         e == PolicyUpdateEffective(r.role, r.dept, r.pol, r.body)
     IN IF ~DepartmentFK(e.department_id)
        THEN /\ req' = [req EXCEPT ![s] = Done(r, 500)]
             /\ UNCHANGED policies
        ELSE /\ policies' = UpdatePolicy(r.pid, e.title, e.status, e.department_id,
                                         e.visibility_type)
             /\ req' = [req EXCEPT ![s] = Done(r, 200)]
  /\ UNCHANGED <<users, departments, versions, acks, tokens, migration>>

\* --------------------------------------------------- Policy.CreateVersion

PolicyCreateVersionBodies ==
  {BadBody} \cup
  {[NoBody EXCEPT !.content = c, !.version_string = v, !.changelog = "g2"] :
     c \in ContentInputs, v \in VersionStringInputs}

\* The guard without its test of visibility_type.
PolicyCreateVersionForbiddenNoVisibility(role, deptID, policy) ==
  /\ role = RoleDeptAdmin
  /\ \/ deptID = Null
     \/ policy.department_id = Null
     \/ deptID # policy.department_id

\* "DeptAdmin can only add versions to their own department's dept-scoped policies."
PolicyCreateVersionForbidden(role, deptID, policy) ==
  /\ role = RoleDeptAdmin
  /\ \/ policy.visibility_type # "department"
     \/ deptID = Null
     \/ policy.department_id = Null
     \/ deptID # policy.department_id

\* Version rows that requests in flight are still to insert.
PendingVersions == Cardinality({s \in Slots : req[s].pc = "PolicyCreateVersionInsert"})

\* GetPolicy, the department guard, Bind and the required fields.
PolicyCreateVersionGet(s, bodies) ==
  /\ req[s].pc = "PolicyCreateVersion"
  /\ LET r0 == req[s] IN
     IF ~GetPolicyFound(r0.pid)
     THEN req' = [req EXCEPT ![s] = Done(r0, 404)]
     ELSE LET r1 == [r0 EXCEPT !.pol = GetPolicy(r0.pid)] IN
          IF PolicyCreateVersionForbidden(r1.role, r1.dept, r1.pol)
          THEN req' = [req EXCEPT ![s] = Done(r1, 403)]
          ELSE \E b \in bodies :
                 LET r == [r1 EXCEPT !.body = b] IN
                 IF b.bad \/ b.content = "" \/ b.version_string = ""
                 THEN req' = [req EXCEPT ![s] = Done(r, 400)]
                 ELSE /\ Len(versions) + PendingVersions < MaxVersions
                      /\ req' = [req EXCEPT ![s] = [r EXCEPT !.pc = "PolicyCreateVersionInsert"]]
  /\ UNCHANGED <<store, tokens, migration>>

\* db.CreatePolicyVersion: the INSERT (policies rows are never deleted, so its
\* foreign key on policy_id holds).
PolicyCreateVersionInsert(s) ==
  /\ req[s].pc = "PolicyCreateVersionInsert"
  /\ LET r == req[s] IN
     /\ versions' = Append(versions,
                           CreatePolicyVersion(r.pid, r.body.content, r.body.version_string,
                                               r.body.changelog))
     /\ req' = [req EXCEPT ![s] = [r EXCEPT !.pc = "PolicyCreateVersionSetCurrent",
                                           !.vid = Len(versions) + 1]]
  /\ UNCHANGED <<users, departments, policies, acks, tokens, migration>>

\* db.SetPolicyCurrentVersion, then 201.
PolicyCreateVersionSetCurrent(s) ==
  /\ req[s].pc = "PolicyCreateVersionSetCurrent"
  /\ policies' = SetPolicyCurrentVersion(req[s].pid, req[s].vid)
  /\ req' = [req EXCEPT ![s] = Done(req[s], 201)]
  /\ UNCHANGED <<users, departments, versions, acks, tokens, migration>>

\* ------------------------------------------- Policy.Versions, Policy.Get

\* db.ListPolicyVersions: the ids of the rows of the policy.
ListPolicyVersions(policyID) == {v \in VersionIds : versions[v].policy_id = policyID}

\* The newest row of a Versions response, 0 for an empty list.
Newest(ids) == IF ids = {} THEN 0 ELSE CHOOSE v \in ids : \A w \in ids : w <= v

\* GET /api/policies/:id/versions: one SELECT, then 200 with the list.
PolicyVersions(s) ==
  /\ req[s].pc = "PolicyVersions"
  /\ LET ids == ListPolicyVersions(req[s].pid) IN
     req' = [req EXCEPT ![s] =
               Done([req[s] EXCEPT !.seen = Newest(ids),
                                   !.list = {[content |-> versions[v].content, id |-> v] :
                                               v \in ids}], 200)]
  /\ UNCHANGED <<store, tokens, migration>>

\* "non-SuperAdmin users cannot access dept-scoped policies outside their dept"
PolicyGetHidden(role, deptID, policy) ==
  /\ role # RoleSuperAdmin
  /\ policy.visibility_type = "department"
  /\ (deptID = Null \/ policy.department_id = Null \/ deptID # policy.department_id)

\* GET /api/policies/:id: GetPolicy and the visibility check.  A policy with
\* no current version is returned at once, with acknowledged = false.
PolicyGet(s) ==
  /\ req[s].pc = "PolicyGet"
  /\ LET r0 == req[s] IN
     IF ~GetPolicyFound(r0.pid)
     THEN req' = [req EXCEPT ![s] = Done(r0, 404)]
     ELSE IF PolicyGetHidden(r0.role, r0.dept, GetPolicy(r0.pid))
     THEN req' = [req EXCEPT ![s] = Done(r0, 404)]
     ELSE LET r == [r0 EXCEPT !.pol = GetPolicy(r0.pid)] IN
          IF r.pol.current_version_id = 0
          THEN req' = [req EXCEPT ![s] = Done(r, 200)]
          ELSE req' = [req EXCEPT ![s] = [r EXCEPT !.pc = "PolicyGetVersion"]]
  /\ UNCHANGED <<store, tokens, migration>>

\* db.GetPolicyVersion of the current version; its error is dropped and leaves
\* currentVersion nil.
PolicyGetVersion(s) ==
  /\ req[s].pc = "PolicyGetVersion"
  /\ IF GetPolicyVersionFound(req[s].pol.current_version_id)
     THEN req' = [req EXCEPT ![s] =
                    [req[s] EXCEPT !.pc = "PolicyGetAcknowledged",
                                   !.content = versions[req[s].pol.current_version_id].content]]
     ELSE req' = [req EXCEPT ![s] = Done(req[s], 200)]
  /\ UNCHANGED <<store, tokens, migration>>

\* db.HasAcknowledged of the caller and the current version, then 200.
PolicyGetAcknowledged(s) ==
  /\ req[s].pc = "PolicyGetAcknowledged"
  /\ LET r == req[s] IN
     req' = [req EXCEPT ![s] =
               Done([r EXCEPT !.acked = HasAcknowledged(r.uid, r.pol.current_version_id)], 200)]
  /\ UNCHANGED <<store, tokens, migration>>

\* ------------------------------------------------------------ Policy.List

\* An item of the List response: a policies row and its acknowledged flag.
ListItem(p, acknowledged) ==
  [acknowledged |-> acknowledged, current_version_id |-> policies[p].current_version_id,
   id |-> p, title |-> policies[p].title]

\* GET /api/policies: db.ListPoliciesForUser.
PolicyList(s) ==
  /\ req[s].pc = "PolicyList"
  /\ LET r == req[s] IN
     req' = [req EXCEPT ![s] =
               [r EXCEPT !.pc = "PolicyListAck",
                         !.list = {ListItem(p, FALSE) : p \in ListPoliciesForUser(r.role, r.dept)}]]
  /\ UNCHANGED <<store, tokens, migration>>

\* db.AckStatusForUser, the flag of every item, then 200.
PolicyListAck(s) ==
  /\ req[s].pc = "PolicyListAck"
  /\ LET r == req[s]
         ackMap == AckStatusForUser(r.uid)
     IN req' = [req EXCEPT ![s] =
                  Done([r EXCEPT !.list =
                          {[i EXCEPT !.acknowledged =
                              (i.current_version_id # 0 /\ i.current_version_id \in ackMap)] :
                             i \in r.list}], 200)]
  /\ UNCHANGED <<store, tokens, migration>>

\* ------------------------------------------------------ Policy.AdminStats

\* db.GetStats: the COUNT(*) queries.
GetStats ==
  [archived_count |-> Cardinality({p \in PolicyIds : policies[p].status = "Archived"}),
   draft_count |-> Cardinality({p \in PolicyIds : policies[p].status = "Draft"}),
   published_count |-> Cardinality({p \in PolicyIds : policies[p].status = "Published"}),
   review_count |-> Cardinality({p \in PolicyIds : policies[p].status = "Review"}),
   total_acknowledgements |-> Len(acks),
   total_policies |-> Len(policies),
   total_users |-> Cardinality(DOMAIN users)]

\* db.ListPolicies: every row, "admin use - no visibility filter".
ListPolicies == PolicyIds

\* db.ListAcknowledgements: the rows of a version.
ListAcknowledgements(policyVersionID) ==
  {i \in DOMAIN acks : acks[i].policy_version_id = policyVersionID}

\* GET /api/admin/stats: db.GetStats.
AdminStats(s) ==
  /\ req[s].pc = "AdminStats"
  /\ req' = [req EXCEPT ![s] = [req[s] EXCEPT !.stats = GetStats, !.pc = "AdminStatsList"]]
  /\ UNCHANGED <<store, tokens, migration>>

\* db.ListPolicies; the loop keeps the Published policies with a current
\* version (current_version_id is the loop's copy, not part of the response).
AdminStatsList(s) ==
  /\ req[s].pc = "AdminStatsList"
  /\ req' = [req EXCEPT ![s] =
               [req[s] EXCEPT !.pc = "AdminStatsAcks",
                  !.list = {[ack_count |-> 0,
                             current_version_id |-> policies[p].current_version_id,
                             policy_id |-> p, title |-> policies[p].title] :
                              p \in {q \in ListPolicies :
                                       /\ policies[q].current_version_id # 0
                                       /\ policies[q].status = "Published"}}]]
  /\ UNCHANGED <<store, tokens, migration>>

\* db.ListAcknowledgements of each kept policy, then 200.
AdminStatsAcks(s) ==
  /\ req[s].pc = "AdminStatsAcks"
  /\ req' = [req EXCEPT ![s] =
               Done([req[s] EXCEPT !.list =
                       {[i EXCEPT !.ack_count =
                           Cardinality(ListAcknowledgements(i.current_version_id))] :
                          i \in req[s].list}], 200)]
  /\ UNCHANGED <<store, tokens, migration>>

\* ------------------------------------------------------ Policy.Acknowledge

\* The table without its UNIQUE constraint.
AckUniqueNotEnforced(userID, policyVersionID) == TRUE

\* UNIQUE(user_id, policy_version_id) admits the row.
AckUnique(userID, policyVersionID) ==
  ~\E i \in DOMAIN acks :
     acks[i].user_id = userID /\ acks[i].policy_version_id = policyVersionID

\* The foreign keys of acknowledgements admit the row.
AckFK(userID, policyVersionID) ==
  userID \in DOMAIN users /\ policyVersionID \in VersionIds

\* time.Now().UTC(): an instant is its whole seconds and its nanoseconds.
Times == [nsec : {0, 5}, sec : {1, 2}]

\* The instant of the specifications where the clock is of no concern.
OneTime == {t \in Times : t.sec = 1 /\ t.nsec = 5}

\* Time.String, layout "2006-01-02 15:04:05.999999999 -0700 MST": the seconds,
\* and the fraction unless it is zero.
TimeString(ts) == IF ts.nsec = 0 THEN <<ts.sec>> ELSE <<ts.sec, ts.nsec>>

\* Time.Format(time.RFC3339): the whole seconds; the fraction is dropped.
FormatRFC3339(ts) == ts.sec

\* parseTime of a stored RFC3339 text.
parseTime(text) == [nsec |-> 0, sec |-> text]

\* fmt.Sprintf("%x", sha256.Sum256(data)), taken to be free of collisions.
Sum256(data) == [sha256 |-> data]

\* userID + policyVersionID + the text of the instant; ids are UUIDs, of one length.
SignatureInput(userID, policyVersionID, text) == <<userID, policyVersionID>> \o text

\* db.CreateAcknowledgement at instant ts: the row it inserts.
CreateAcknowledgement(userID, policyVersionID, ts) ==
  [policy_version_id |-> policyVersionID,
   signature_hash |-> Sum256(SignatureInput(userID, policyVersionID, TimeString(ts))),
   timestamp |-> FormatRFC3339(ts),
   user_id |-> userID]

\* The check of the status alone.
PolicyAcknowledgeRejectsUnpublished(policy) == policy.status # "Published"

\* "can only acknowledge published policies", "policy has no current version"
PolicyAcknowledgeRejects(policy) ==
  policy.status # "Published" \/ policy.current_version_id = 0

\* GetPolicy, then the checks of status and current version.
PolicyAcknowledge(s) ==
  /\ req[s].pc = "PolicyAcknowledge"
  /\ LET r0 == req[s] IN
     IF ~GetPolicyFound(r0.pid)
     THEN req' = [req EXCEPT ![s] = Done(r0, 404)]
     ELSE LET r == [r0 EXCEPT !.pol = GetPolicy(r0.pid)] IN
          IF PolicyAcknowledgeRejects(r.pol)
          THEN req' = [req EXCEPT ![s] = Done(r, 400)]
          ELSE req' = [req EXCEPT ![s] = [r EXCEPT !.pc = "PolicyAcknowledgeHas"]]
  /\ UNCHANGED <<store, tokens, migration>>

\* db.HasAcknowledged: 409 when the row is there.
PolicyAcknowledgeHas(s) ==
  /\ req[s].pc = "PolicyAcknowledgeHas"
  /\ LET r == req[s] IN
     IF HasAcknowledged(r.uid, r.pol.current_version_id)
     THEN req' = [req EXCEPT ![s] = Done(r, 409)]
     ELSE req' = [req EXCEPT ![s] = [r EXCEPT !.pc = "PolicyAcknowledgeInsert"]]
  /\ UNCHANGED <<store, tokens, migration>>

\* db.CreateAcknowledgement: the INSERT; any error of it is a 500.
PolicyAcknowledgeInsert(s, times) ==
  /\ req[s].pc = "PolicyAcknowledgeInsert"
  /\ LET r == req[s]
         v == r.pol.current_version_id
     IN IF AckUnique(r.uid, v) /\ AckFK(r.uid, v)
        THEN /\ \E ts \in times : acks' = Append(acks, CreateAcknowledgement(r.uid, v, ts))
             /\ req' = [req EXCEPT ![s] = Done(r, 201)]
        ELSE /\ req' = [req EXCEPT ![s] = Done(r, 500)]
             /\ UNCHANGED acks
  /\ UNCHANGED <<users, departments, policies, versions, tokens, migration>>

\* ------------------------------------------------ User.Update, User.Delete

GetUserFound(id) == id \in DOMAIN users
GetUserByID(id) == users[id]

\* SELECT COUNT(*) FROM users WHERE role = 'SuperAdmin'.
CountSuperAdmins == Cardinality({u \in DOMAIN users : users[u].role = RoleSuperAdmin})

\* UPDATE users SET role, department_id WHERE id: no row, no change, no error.
UpdateUser(id, role, departmentID) ==
  IF id \in DOMAIN users
  THEN [users EXCEPT ![id] = [@ EXCEPT !.role = role, !.department_id = departmentID]]
  ELSE users

\* The foreign keys that reference users(id) let the row go: users.created_by
\* and acknowledgements.user_id.
UserFK(id) ==
  /\ \A u \in DOMAIN users : users[u].created_by # id
  /\ \A i \in DOMAIN acks : acks[i].user_id # id

\* DELETE FROM users WHERE id.
DeleteUser(id) == [u \in DOMAIN users \ {id} |-> users[u]]

UserUpdateBodies(roles, depts) ==
  {BadBody} \cup
  {[NoBody EXCEPT !.role = ro, !.department_id = d] : ro \in roles, d \in depts}

\* GetUserByID, Bind, the default of role and its validation; the body kept is
\* the one with the default applied.
UserUpdateGet(s, bodies) ==
  /\ req[s].pc = "UserUpdate"
  /\ LET r0 == req[s] IN
     IF ~GetUserFound(r0.tuid)
     THEN req' = [req EXCEPT ![s] = Done(r0, 404)]
     ELSE \E b0 \in bodies :
            LET target == GetUserByID(r0.tuid)
                b == IF b0.role = "" /\ ~b0.bad THEN [b0 EXCEPT !.role = target.role] ELSE b0
                r == [r0 EXCEPT !.tgt = target, !.body = b]
            IN IF b.bad \/ b.role \notin validRoles
               THEN req' = [req EXCEPT ![s] = Done(r, 400)]
               ELSE IF target.role = RoleSuperAdmin /\ b.role # RoleSuperAdmin
               THEN req' = [req EXCEPT ![s] = [r EXCEPT !.pc = "UserUpdateCount"]]
               ELSE req' = [req EXCEPT ![s] = [r EXCEPT !.pc = "UserUpdateWrite"]]
  /\ UNCHANGED <<store, tokens, migration>>

\* "Prevent downgrading the last SuperAdmin."
UserUpdateCount(s) ==
  /\ req[s].pc = "UserUpdateCount"
  /\ LET r == [req[s] EXCEPT !.count = CountSuperAdmins] IN
     IF r.count <= 1
     THEN req' = [req EXCEPT ![s] = Done(r, 409)]
     ELSE req' = [req EXCEPT ![s] = [r EXCEPT !.pc = "UserUpdateWrite"]]
  /\ UNCHANGED <<store, tokens, migration>>

\* db.UpdateUser, then 200.
UserUpdateWrite(s) ==
  /\ req[s].pc = "UserUpdateWrite"
  /\ LET r == req[s] IN
     IF ~DepartmentFK(r.body.department_id)
     THEN /\ req' = [req EXCEPT ![s] = Done(r, 500)]
          /\ UNCHANGED users
     ELSE /\ users' = UpdateUser(r.tuid, r.body.role, r.body.department_id)
          /\ req' = [req EXCEPT ![s] = Done(r, 200)]
  /\ UNCHANGED <<departments, policies, versions, acks, tokens, migration>>

\* "cannot delete yourself", then GetUserByID.
UserDeleteGet(s) ==
  /\ req[s].pc = "UserDelete"
  /\ LET r0 == req[s] IN
     IF r0.tuid = r0.uid
     THEN req' = [req EXCEPT ![s] = Done(r0, 409)]
     ELSE IF ~GetUserFound(r0.tuid)
     THEN req' = [req EXCEPT ![s] = Done(r0, 404)]
     ELSE LET r == [r0 EXCEPT !.tgt = GetUserByID(r0.tuid)] IN
          IF r.tgt.role = RoleSuperAdmin
          THEN req' = [req EXCEPT ![s] = [r EXCEPT !.pc = "UserDeleteCount"]]
          ELSE req' = [req EXCEPT ![s] = [r EXCEPT !.pc = "UserDeleteWrite"]]
  /\ UNCHANGED <<store, tokens, migration>>

\* "Prevent deleting the last SuperAdmin."
UserDeleteCount(s) ==
  /\ req[s].pc = "UserDeleteCount"
  /\ LET r == [req[s] EXCEPT !.count = CountSuperAdmins] IN
     IF r.count <= 1
     THEN req' = [req EXCEPT ![s] = Done(r, 409)]
     ELSE req' = [req EXCEPT ![s] = [r EXCEPT !.pc = "UserDeleteWrite"]]
  /\ UNCHANGED <<store, tokens, migration>>

\* db.DeleteUser, then 204; 500 when a foreign key holds the row.
UserDeleteWrite(s) ==
  /\ req[s].pc = "UserDeleteWrite"
  /\ LET r == req[s] IN
     IF r.tuid \in DOMAIN users /\ ~UserFK(r.tuid)
     THEN /\ req' = [req EXCEPT ![s] = Done(r, 500)]
          /\ UNCHANGED users
     ELSE /\ users' = DeleteUser(r.tuid)
          /\ req' = [req EXCEPT ![s] = Done(r, 204)]
  /\ UNCHANGED <<departments, policies, versions, acks, tokens, migration>>

\* ------------------------------------------------------------ User.Create

\* uuid.New: an id that no row and no session has.
FreshUserIds ==
  {u \in UserIds : u \notin DOMAIN users /\ \A t \in tokens : t.sub # u}

\* db.CreateUser: INSERT INTO users.
CreateUser(id, role, createdBy, departmentID) ==
  (id :> [created_by |-> createdBy, department_id |-> departmentID, role |-> role]) @@ users

UserCreateBodies(roles, depts) ==
  {BadBody, [NoBody EXCEPT !.name = "n"], [NoBody EXCEPT !.email = "e"]} \cup
  {[NoBody EXCEPT !.email = "e", !.name = "n", !.role = ro, !.department_id = d] :
     ro \in roles, d \in depts}

\* The role of the new user: Staff by default.
UserCreateRole(b) == IF b.role = "" THEN RoleStaff ELSE b.role

\* The checks before the INSERT: the status they answer with, 0 when they pass.
\* The department check is `deptID == nil` on the context value, which is nil
\* only when Require has not set the key.
UserCreateReject(r, b) ==
  IF b.bad THEN 400
  ELSE IF b.email = "" \/ b.name = "" THEN 400
  ELSE IF UserCreateRole(b) \notin validRoles THEN 400
  ELSE IF r.role = RoleDeptAdmin /\ ~r.deptset THEN 403
  ELSE IF r.role = RoleDeptAdmin /\ UserCreateRole(b) = RoleSuperAdmin THEN 403
  ELSE 0

\* The department written when the caller's department is not put in its place.
UserCreateDepartmentAsSent(r, b) == b.department_id

\* The department of the new user: the caller's when the caller is a DeptAdmin.
UserCreateDepartment(r, b) ==
  IF r.role = RoleDeptAdmin THEN r.dept ELSE b.department_id

\* User.Create: 409 when the INSERT fails on a foreign key (created_by,
\* department_id), else 201 and the new row.
UserCreate(s, bodies) ==
  /\ req[s].pc = "UserCreate"
  /\ \E b \in bodies :
       LET r == [req[s] EXCEPT !.body = b]
           code == UserCreateReject(r, b)
           dept == UserCreateDepartment(r, b)
       IN IF code # 0
          THEN /\ req' = [req EXCEPT ![s] = Done(r, code)]
               /\ UNCHANGED users
          ELSE IF ~GetUserFound(r.uid) \/ ~DepartmentFK(dept)
          THEN /\ req' = [req EXCEPT ![s] = Done(r, 409)]
               /\ UNCHANGED users
          ELSE /\ FreshUserIds # {}
               /\ LET id == CHOOSE u \in FreshUserIds : TRUE IN
                  /\ users' = CreateUser(id, UserCreateRole(b), r.uid, dept)
                  /\ req' = [req EXCEPT ![s] = Done([r EXCEPT !.tuid = id], 201)]
  /\ UNCHANGED <<departments, policies, versions, acks, tokens, migration>>

\* ------------------------------------------------------ Departments.Delete

GetDepartmentFound(id) == id \in DOMAIN departments

\* SELECT COUNT(*) FROM policies WHERE department_id = ? ... > 0.
DepartmentHasPolicies(id) == \E p \in PolicyIds : policies[p].department_id = id

\* The foreign keys that reference departments(id) let the row go:
\* users.department_id and policies.department_id.
DepartmentRowFK(id) ==
  /\ \A u \in DOMAIN users : users[u].department_id # id
  /\ \A p \in PolicyIds : policies[p].department_id # id

\* DELETE FROM departments WHERE id.
DeleteDepartment(id) == [d \in DOMAIN departments \ {id} |-> departments[d]]

\* db.GetDepartment: 404 when there is no such row.
DepartmentsDeleteGet(s) ==
  /\ req[s].pc = "DepartmentsDelete"
  /\ IF ~GetDepartmentFound(req[s].tdid)
     THEN req' = [req EXCEPT ![s] = Done(req[s], 404)]
     ELSE req' = [req EXCEPT ![s] = [req[s] EXCEPT !.pc = "DepartmentsDeleteHas"]]
  /\ UNCHANGED <<store, tokens, migration>>

\* db.DepartmentHasPolicies: 409 "department has assigned policies".
DepartmentsDeleteHas(s) ==
  /\ req[s].pc = "DepartmentsDeleteHas"
  /\ IF DepartmentHasPolicies(req[s].tdid)
     THEN req' = [req EXCEPT ![s] = Done(req[s], 409)]
     ELSE req' = [req EXCEPT ![s] = [req[s] EXCEPT !.pc = "DepartmentsDeleteWrite"]]
  /\ UNCHANGED <<store, tokens, migration>>

\* db.DeleteDepartment, then 204; 500 when a foreign key holds the row.
DepartmentsDeleteWrite(s) ==
  /\ req[s].pc = "DepartmentsDeleteWrite"
  /\ LET r == req[s] IN
     IF r.tdid \in DOMAIN departments /\ ~DepartmentRowFK(r.tdid)
     THEN /\ req' = [req EXCEPT ![s] = Done(r, 500)]
          /\ UNCHANGED departments
     ELSE /\ departments' = DeleteDepartment(r.tdid)
          /\ req' = [req EXCEPT ![s] = Done(r, 204)]
  /\ UNCHANGED <<users, policies, versions, acks, tokens, migration>>

\* ------------------------------- Departments.Create, Departments.Update

\* uuid.New: the id of no row.
FreshDeptIds == DeptIds \ DOMAIN departments

\* departments.name is UNIQUE: no other row has the name.
DepartmentNameFree(id, name) ==
  \A d \in DOMAIN departments : d # id => departments[d] # name

\* db.CreateDepartment: INSERT INTO departments.
CreateDepartment(id, name) == (id :> name) @@ departments

\* db.UpdateDepartment, its UPDATE: no row, no change, no error.
UpdateDepartment(id, name) ==
  IF id \in DOMAIN departments THEN [departments EXCEPT ![id] = name] ELSE departments

DepartmentsBodies(names) == {BadBody} \cup {[NoBody EXCEPT !.name = n] : n \in names}

\* Departments.Create: 400 without a name, 409 when the INSERT fails, else 201.
DepartmentsCreate(s, bodies) ==
  /\ req[s].pc = "DepartmentsCreate"
  /\ \E b \in bodies :
       LET r == [req[s] EXCEPT !.body = b] IN
       IF b.bad \/ b.name = ""
       THEN /\ req' = [req EXCEPT ![s] = Done(r, 400)]
            /\ UNCHANGED departments
       ELSE IF ~DepartmentNameFree(Null, b.name)
       THEN /\ req' = [req EXCEPT ![s] = Done(r, 409)]
            /\ UNCHANGED departments
       ELSE /\ FreshDeptIds # {}
            /\ LET id == CHOOSE d \in FreshDeptIds : TRUE IN
               /\ departments' = CreateDepartment(id, b.name)
               /\ req' = [req EXCEPT ![s] = Done([r EXCEPT !.tdid = id], 201)]
  /\ UNCHANGED <<users, policies, versions, acks, tokens, migration>>

\* Departments.Update: GetDepartment (404), Bind (400), the name defaults to
\* the stored one.
DepartmentsUpdateGet(s, bodies) ==
  /\ req[s].pc = "DepartmentsUpdate"
  /\ LET r0 == req[s] IN
     IF ~GetDepartmentFound(r0.tdid)
     THEN req' = [req EXCEPT ![s] = Done(r0, 404)]
     ELSE \E b0 \in bodies :
            LET b == IF b0.name = "" /\ ~b0.bad
                     THEN [b0 EXCEPT !.name = departments[r0.tdid]] ELSE b0
                r == [r0 EXCEPT !.body = b]
            IN IF b.bad
               THEN req' = [req EXCEPT ![s] = Done(r, 400)]
               ELSE req' = [req EXCEPT ![s] = [r EXCEPT !.pc = "DepartmentsUpdateWrite"]]
  /\ UNCHANGED <<store, tokens, migration>>

\* db.UpdateDepartment, the UPDATE: 500 when the name is another row's.
DepartmentsUpdateWrite(s) ==
  /\ req[s].pc = "DepartmentsUpdateWrite"
  /\ LET r == req[s] IN
     IF r.tdid \in DOMAIN departments /\ ~DepartmentNameFree(r.tdid, r.body.name)
     THEN /\ req' = [req EXCEPT ![s] = Done(r, 500)]
          /\ UNCHANGED departments
     ELSE /\ departments' = UpdateDepartment(r.tdid, r.body.name)
          /\ req' = [req EXCEPT ![s] = [r EXCEPT !.pc = "DepartmentsUpdateRead"]]
  /\ UNCHANGED <<users, policies, versions, acks, tokens, migration>>

\* db.UpdateDepartment, its GetDepartment: 500 when the row is gone, else 200.
DepartmentsUpdateRead(s) ==
  /\ req[s].pc = "DepartmentsUpdateRead"
  /\ req' = [req EXCEPT ![s] = Done(req[s], IF GetDepartmentFound(req[s].tdid) THEN 200 ELSE 500)]
  /\ UNCHANGED <<store, tokens, migration>>

\* ------------------------------------------------------- specifications

\* Ids a request may address: the rows there are, and one id of no row.
PolicyTargets == 1 .. (Len(policies) + 1)

\* Department d1 is named n1 and d2 is named n2.
InitDepartments == [d \in DeptIds |-> IF d = "d1" THEN "n1" ELSE "n2"]

\* A super admin, the admins of d1 and of d2, and an admin of no department
\* (users.department_id is nullable whatever the role).
InitUsers ==
  [u \in UserIds |->
     CASE u = "u1" -> [created_by |-> Null, department_id |-> Null, role |-> RoleSuperAdmin]
       [] u = "u2" -> [created_by |-> "u1", department_id |-> "d1", role |-> RoleDeptAdmin]
       [] u = "u3" -> [created_by |-> "u1", department_id |-> "d2", role |-> RoleDeptAdmin]
       [] u = "u4" -> [created_by |-> "u1", department_id |-> Null, role |-> RoleDeptAdmin]]

TokensOf(us) == {[role |-> us[u].role, sub |-> u] : u \in DOMAIN us}

InitPolicy ==
  /\ users = InitUsers
  /\ departments = InitDepartments
  /\ policies = <<>>
  /\ versions = <<>>
  /\ acks = <<>>
  /\ tokens = TokensOf(InitUsers)
  /\ req = [s \in Slots |-> Idle]
  /\ Serving

NextPolicy ==
  \/ \E tok \in tokens, op \in {"PolicyCreate", "PolicyUpdate"}, pid \in PolicyTargets :
       Begin("r1", tok, op, pid, Null, Null)
  \/ PolicyCreate("r1", PolicyCreateBodies({"", "t1"}))
  \/ PolicyUpdateGet("r1", PolicyUpdateBodies({"", "t2"}, {"", "Published", "bogus"}))
  \/ PolicyUpdateWrite("r1")
  \/ Finish("r1")

Spec == InitPolicy /\ [][NextPolicy]_vars

\* ------------------------------------------- claims on Create and Update

\* C1: every stored policy has visibility_type = organization only with a null
\* department_id, and visibility_type = department only with a non-null one.
C1_VisibilityMatchesDepartment ==
  \A p \in PolicyIds :
    /\ policies[p].visibility_type = "organization" => policies[p].department_id = Null
    /\ policies[p].visibility_type = "department" => policies[p].department_id # Null

\* An Update Policy request that has returned, by a DeptAdmin of a department,
\* on a policy that was of that department when the handler read it.
C4_OwnPolicyUpdate(r) ==
  /\ r.op = "PolicyUpdate" /\ r.pc = "done"
  /\ r.role = RoleDeptAdmin /\ r.dept # Null
  /\ r.pol # NoPolicy /\ r.pol.department_id = r.dept

C4_Clamped(r) ==
  /\ r.code = 200
  /\ policies[r.pid].visibility_type = "department"
  /\ policies[r.pid].department_id = r.dept

\* C4 as stated: every Update Policy request by a DeptAdmin on a policy of the
\* caller's department returns 200 and leaves the policy department-scoped to
\* the caller's department.
C4_EveryOwnUpdateClamped ==
  \A s \in Slots : C4_OwnPolicyUpdate(req[s]) => C4_Clamped(req[s])

\* C4 amended: such a request returns 200 and leaves the policy department-scoped
\* to the caller's department whatever visibility_type and department_id it
\* carries, when its body is well-formed and its status is omitted or valid.
C4_ValidOwnUpdateClamped ==
  \A s \in Slots :
    ( /\ C4_OwnPolicyUpdate(req[s])
      /\ ~req[s].body.bad
      /\ req[s].body.status \in {""} \cup validStatuses )
    => C4_Clamped(req[s])

\* A DeptAdmin of d1 sent visibility_type = organization and department_id = d2
\* for a policy of d1, got 200, and the policy is still department-scoped to d1.
C4_Witness ==
  \E s \in Slots :
    /\ C4_OwnPolicyUpdate(req[s])
    /\ req[s].code = 200
    /\ req[s].dept = "d1"
    /\ req[s].body.visibility_type = "organization"
    /\ req[s].body.department_id = "d2"
    /\ policies[req[s].pid].visibility_type = "department"
    /\ policies[req[s].pid].department_id = "d1"

\* An Update Policy request that has returned and whose handler found the policy.
C5_Update(r) == r.op = "PolicyUpdate" /\ r.pc = "done" /\ r.pol # NoPolicy

\* A DeptAdmin on a policy of no department or of another one: 403, nothing changed.
C5_DeptAdminRejected(r) ==
  ( /\ C5_Update(r)
    /\ r.role = RoleDeptAdmin
    /\ (r.pol.department_id = Null \/ r.pol.department_id # r.dept) )
  => (r.code = 403 /\ policies[r.pid] = r.pol)

\* 200, and every field the body carries is stored as sent.
C5_StoredAsSent(r) ==
  /\ r.code = 200
  /\ r.body.title # "" => policies[r.pid].title = r.body.title
  /\ r.body.status # "" => policies[r.pid].status = r.body.status
  /\ r.body.visibility_type # "" =>
       policies[r.pid].visibility_type = r.body.visibility_type
  /\ r.body.department_id # Null =>
       policies[r.pid].department_id = r.body.department_id

\* C5 as stated: a DeptAdmin on a policy of no department or of another
\* department gets 403 and changes nothing; a SuperAdmin gets 200 and the
\* title, status, visibility_type and department_id are stored as sent.
C5_ForbiddenOrStoredAsSent ==
  \A s \in Slots :
    /\ C5_DeptAdminRejected(req[s])
    /\ (C5_Update(req[s]) /\ req[s].role = RoleSuperAdmin) => C5_StoredAsSent(req[s])

\* C5 amended: the SuperAdmin's request returns 200 and stores what it carries
\* when its body is well-formed, its status is omitted or valid and its
\* department_id is omitted or names a department; an omitted field keeps its
\* stored value.
C5_ForbiddenOrValidStoredAsSent ==
  \A s \in Slots :
    LET r == req[s] IN
    /\ C5_DeptAdminRejected(r)
    /\ ( /\ C5_Update(r) /\ r.role = RoleSuperAdmin
         /\ ~r.body.bad
         /\ r.body.status \in {""} \cup validStatuses
         /\ r.body.department_id \in {Null} \cup DeptIds )
       => /\ C5_StoredAsSent(r)
          /\ r.body.title = "" => policies[r.pid].title = r.pol.title
          /\ r.body.status = "" => policies[r.pid].status = r.pol.status
          /\ r.body.visibility_type = "" =>
               policies[r.pid].visibility_type = r.pol.visibility_type
          /\ r.body.department_id = Null =>
               policies[r.pid].department_id = r.pol.department_id

\* A SuperAdmin turned a policy of d1 organization-wide and renamed it, with 200.
C5_Witness ==
  \E s \in Slots :
    /\ C5_Update(req[s]) /\ req[s].role = RoleSuperAdmin /\ req[s].code = 200
    /\ req[s].pol.visibility_type = "department" /\ req[s].pol.department_id = "d1"
    /\ req[s].body.visibility_type = "organization" /\ req[s].body.title = "t2"
    /\ policies[req[s].pid].visibility_type = "organization"
    /\ policies[req[s].pid].title = "t2"

\* A DeptAdmin of d2 was refused on a policy of d1.
C5_WitnessForbidden ==
  \E s \in Slots :
    /\ C5_Update(req[s]) /\ req[s].role = RoleDeptAdmin /\ req[s].dept = "d2"
    /\ req[s].pol.department_id = "d1" /\ req[s].code = 403

\* --------------------------------- specification: versions and readers

\* The policies rows a SuperAdmin's Create Policy requests leave behind.
StoredPolicies ==
  {[current_version_id |-> 0, department_id |-> d, status |-> "Draft", title |-> "t1",
    visibility_type |-> v] : d \in {Null} \cup DeptIds, v \in validVis}

InitVersion ==
  /\ users = InitUsers
  /\ departments = InitDepartments
  /\ policies \in {<<p>> : p \in StoredPolicies}
  /\ versions = <<>>
  /\ acks = <<>>
  /\ tokens = TokensOf(InitUsers)
  /\ req = [s \in Slots |-> Idle]
  /\ Serving

\* An author on connection r1, a reader on connection r2.
NextVersion ==
  \/ \E tok \in tokens, pid \in PolicyTargets :
       Begin("r1", tok, "PolicyCreateVersion", pid, Null, Null)
  \/ PolicyCreateVersionGet("r1", PolicyCreateVersionBodies)
  \/ PolicyCreateVersionInsert("r1")
  \/ PolicyCreateVersionSetCurrent("r1")
  \/ Finish("r1")
  \/ \E tok \in {t \in tokens : t.sub \in {"u1", "u2"}}, op \in {"PolicyVersions", "PolicyGet"} :
       Begin("r2", tok, op, 1, Null, Null)
  \/ PolicyVersions("r2")
  \/ PolicyGet("r2")
  \/ PolicyGetVersion("r2")
  \/ PolicyGetAcknowledged("r2")
  \/ Finish("r2")

SpecVersion == InitVersion /\ [][NextVersion]_vars

\* ------------------------------------------------ claims on CreateVersion

\* A CreateVersion request that has returned and whose handler found the policy.
C6_CreateVersion(r) == r.op = "PolicyCreateVersion" /\ r.pc = "done" /\ r.pol # NoPolicy

C6_WellFormed(b) == ~b.bad /\ b.content # "" /\ b.version_string # ""

\* C6: a DeptAdmin's CreateVersion on an organization-wide policy or on a policy
\* of another department returns 403, inserts no version and leaves
\* current_version_id as it was; on a department-scoped policy of the caller's
\* department with non-empty content and version_string it returns 201; a
\* SuperAdmin is never refused and gets 201 for such a body on any policy.
C6_DeptGuardOnCreateVersion ==
  \A s \in Slots :
    LET r == req[s] IN
    C6_CreateVersion(r) =>
      /\ ( /\ r.role = RoleDeptAdmin
           /\ (r.pol.visibility_type = "organization" \/ r.pol.department_id # r.dept) )
         => /\ r.code = 403
            /\ r.vid = 0
            /\ policies[r.pid].current_version_id = r.pol.current_version_id
      /\ ( /\ r.role = RoleDeptAdmin
           /\ r.pol.visibility_type = "department"
           /\ r.dept # Null /\ r.pol.department_id = r.dept
           /\ C6_WellFormed(r.body) )
         => r.code = 201
      /\ r.role = RoleSuperAdmin
         => (r.code # 403 /\ (C6_WellFormed(r.body) => r.code = 201))

\* The admin of d1 added a version to a department-scoped policy of d1: 201,
\* the row is there and it is the current version.
C6_Witness ==
  \E s \in Slots :
    /\ C6_CreateVersion(req[s]) /\ req[s].role = RoleDeptAdmin /\ req[s].dept = "d1"
    /\ req[s].pol.visibility_type = "department" /\ req[s].pol.department_id = "d1"
    /\ req[s].code = 201
    /\ req[s].vid \in ListPolicyVersions(req[s].pid)
    /\ policies[req[s].pid].current_version_id = req[s].vid

\* C7: a reader never sees a version of a policy that the policy's
\* current_version_id has not reached yet: once a Versions response has listed
\* a version, every later Get of that policy on the same connection shows a
\* current_version_id at least as new.
C7_ReadersSeeVersionAndCurrentTogether ==
  \A s \in Slots :
    LET r == req[s] IN
    ( /\ r.op = "PolicyGet" /\ r.pc = "done" /\ r.code = 200
      /\ r.seen \in ListPolicyVersions(r.pid) )
    => r.pol.current_version_id >= r.seen

\* ----------------------------------------- specification: acknowledgements

\* A policy with one version, published or not, and a published policy with
\* no version yet.
InitAck ==
  /\ users = InitUsers
  /\ departments = InitDepartments
  /\ \E st \in {"Draft", "Published"}, cur \in {0, 1} :
       /\ (st = "Draft" => cur = 1)
       /\ policies = <<[current_version_id |-> cur, department_id |-> Null, status |-> st,
                        title |-> "t1", visibility_type |-> "organization"]>>
       /\ versions = IF cur = 0 THEN <<>> ELSE <<CreatePolicyVersion(1, "c1", "v1", "g1")>>
  /\ acks = <<>>
  /\ tokens = TokensOf(InitUsers)
  /\ req = [s \in Slots |-> Idle]
  /\ Serving

\* Each of the two connections sends one Acknowledge request.
NextAck ==
  \/ \E s \in Slots, tok \in tokens, pid \in PolicyTargets :
       Begin(s, tok, "PolicyAcknowledge", pid, Null, Null)
  \/ \E s \in Slots : PolicyAcknowledge(s)
  \/ \E s \in Slots : PolicyAcknowledgeHas(s)
  \/ \E s \in Slots : PolicyAcknowledgeInsert(s, Times)

SpecAck == InitAck /\ [][NextAck]_vars

\* ------------------------------------------------- claims on Acknowledge

\* C2: no two rows of acknowledgements have the same user_id and
\* policy_version_id, whatever the interleaving of the statements of
\* overlapping Acknowledge requests.
C2_AcknowledgementsUnique ==
  \A i, j \in DOMAIN acks :
    (acks[i].user_id = acks[j].user_id
       /\ acks[i].policy_version_id = acks[j].policy_version_id) => i = j

\* Two requests of one user on one version overlapped: both found no row, one
\* inserted it and the other's INSERT was refused, so there is one row.
C2_Witness ==
  /\ Len(acks) = 1
  /\ \E s, t \in Slots :
       /\ s # t
       /\ req[s].op = "PolicyAcknowledge" /\ req[t].op = "PolicyAcknowledge"
       /\ req[s].uid = req[t].uid
       /\ req[s].code = 201 /\ req[t].code = 500

\* An Acknowledge request that has returned, having found its policy published
\* and with a current version.
C3_Acknowledged(r) ==
  /\ r.op = "PolicyAcknowledge" /\ r.pc = "done"
  /\ r.pol # NoPolicy /\ r.pol.status = "Published" /\ r.pol.current_version_id # 0

\* C3: of two Acknowledge requests of one user on one current version, one
\* after the other or overlapping, one returns 201 and the other 409, and
\* neither returns 500.
C3_OneCreatedOneConflict ==
  \A s, t \in Slots :
    ( /\ s # t
      /\ C3_Acknowledged(req[s]) /\ C3_Acknowledged(req[t])
      /\ req[s].uid = req[t].uid
      /\ req[s].pol.current_version_id = req[t].pol.current_version_id )
    => {req[s].code, req[t].code} = {201, 409}

\* --------------------------------------------------- specification: users

\* The first super admin, a second one and a department admin it created.
InitAdmins ==
  [u \in {"u1", "u2", "u3"} |->
     CASE u = "u1" -> [created_by |-> Null, department_id |-> Null, role |-> RoleSuperAdmin]
       [] u = "u2" -> [created_by |-> "u1", department_id |-> Null, role |-> RoleSuperAdmin]
       [] u = "u3" -> [created_by |-> "u1", department_id |-> "d1", role |-> RoleDeptAdmin]]

InitUsersSpec ==
  /\ users = InitAdmins
  /\ departments = InitDepartments
  /\ policies = <<>>
  /\ versions = <<>>
  /\ acks = <<>>
  /\ tokens = TokensOf(InitAdmins)
  /\ req = [s \in Slots |-> Idle]
  /\ Serving

UserRequest(s) ==
  \/ \E tok \in tokens, op \in {"UserUpdate", "UserDelete"}, tuid \in UserIds :
       Begin(s, tok, op, 0, tuid, Null)
  \/ UserUpdateGet(s, UserUpdateBodies({"", "bogus", RoleStaff, RoleSuperAdmin}, {Null, "d1", "dx"}))
  \/ UserUpdateCount(s)
  \/ UserUpdateWrite(s)
  \/ UserDeleteGet(s)
  \/ UserDeleteCount(s)
  \/ UserDeleteWrite(s)

\* Each of the two connections sends one Update User or Delete User request.
NextUsers == \E s \in Slots : UserRequest(s)

SpecUsers == InitUsersSpec /\ [][NextUsers]_vars

\* One connection sends such requests one after the other.
NextUserAdmin == UserRequest("r1") \/ Finish("r1")

SpecUserAdmin == InitUsersSpec /\ [][NextUserAdmin]_vars

\* -------------------------------------------------------- claims on users

\* C8: there is a user with role SuperAdmin in every state that Update User and
\* Delete User requests, interleaved statement by statement, lead to.
C8_SomeSuperAdmin == \E u \in DOMAIN users : users[u].role = RoleSuperAdmin

\* An Update User request that has returned and asked a SuperAdmin to take
\* another role, with a well-formed body naming a department or none.
C9_Demotion(r) ==
  /\ r.op = "UserUpdate" /\ r.pc = "done"
  /\ r.tgt # NoUser /\ r.tgt.role = RoleSuperAdmin
  /\ ~r.body.bad /\ r.body.role \in validRoles \ {RoleSuperAdmin}
  /\ DepartmentFK(r.body.department_id)

\* A Delete User request that has returned and whose target was a SuperAdmin
\* other than the caller.
C9_Deletion(r) ==
  /\ r.op = "UserDelete" /\ r.pc = "done"
  /\ r.tgt # NoUser /\ r.tgt.role = RoleSuperAdmin

\* The only SuperAdmin is neither demoted nor deleted: 409, the row as it was.
C9_LastSuperAdminKept(r) ==
  ((C9_Demotion(r) \/ C9_Deletion(r)) /\ r.count = 1)
  => (r.code = 409 /\ r.tuid \in DOMAIN users /\ users[r.tuid] = r.tgt)

\* With two SuperAdmins the demotion of one is stored.
C9_DemotionStored(r) ==
  (C9_Demotion(r) /\ r.count = 2)
  => (r.code = 200 /\ users[r.tuid].role = r.body.role)

\* With two SuperAdmins the deletion of one on the other's request is stored.
C9_DeletionStored(r) ==
  ( /\ C9_Deletion(r) /\ r.count = 2
    /\ r.uid \in DOMAIN users /\ users[r.uid].role = RoleSuperAdmin )
  => (r.code = 204 /\ r.tuid \notin DOMAIN users)

\* C9: demoting or deleting the only SuperAdmin returns 409 and changes
\* nothing; when there are two SuperAdmins, demoting one of them, or deleting
\* one of them on the other's request, succeeds and is stored.
C9_LastKeptElseStored ==
  \A s \in Slots :
    /\ C9_LastSuperAdminKept(req[s])
    /\ C9_DemotionStored(req[s])
    /\ C9_DeletionStored(req[s])

\* --------------------------------------------- specification: departments

\* Departments d1 and d2, with an admin assigned to each or to d1 only.
InitDept ==
  /\ users \in {InitUsers, InitAdmins}
  /\ departments = InitDepartments
  /\ policies = <<>>
  /\ versions = <<>>
  /\ acks = <<>>
  /\ tokens = TokensOf(users)
  /\ req = [s \in Slots |-> Idle]
  /\ Serving

\* One connection creates policies and deletes departments, one request after
\* the other.
NextDept ==
  \/ \E tok \in tokens, tdid \in DeptIds \cup {"dx"} :
       Begin("r1", tok, "DepartmentsDelete", 0, Null, tdid)
  \/ \E tok \in tokens : Begin("r1", tok, "PolicyCreate", 0, Null, Null)
  \/ PolicyCreate("r1", PolicyCreateBodies({"t1"}))
  \/ DepartmentsDeleteGet("r1")
  \/ DepartmentsDeleteHas("r1")
  \/ DepartmentsDeleteWrite("r1")
  \/ Finish("r1")

SpecDept == InitDept /\ [][NextDept]_vars

\* -------------------------------------------------- claims on departments

\* A Delete Department request of a SuperAdmin that has returned.
C10_Delete(r) ==
  r.op = "DepartmentsDelete" /\ r.pc = "done" /\ r.role = RoleSuperAdmin

\* C10: Delete Department returns 409 and keeps the department when a policy
\* has its id as department_id; when no policy has, it succeeds and the
\* department is gone, whether or not users are assigned to it.
C10_ConflictIffPolicies ==
  \A s \in Slots :
    LET r == req[s] IN
    /\ (C10_Delete(r) /\ DepartmentHasPolicies(r.tdid))
       => (r.code = 409 /\ r.tdid \in DOMAIN departments)
    /\ (C10_Delete(r) /\ r.code # 404 /\ ~DepartmentHasPolicies(r.tdid))
       => (r.code = 204 /\ r.tdid \notin DOMAIN departments)

\* ------------------------------------------------- specification: readers

\* A super admin, the admin of d1, a staff member of d2 and one of no department.
InitStaff ==
  [u \in UserIds |->
     CASE u = "u1" -> [created_by |-> Null, department_id |-> Null, role |-> RoleSuperAdmin]
       [] u = "u2" -> [created_by |-> "u1", department_id |-> "d1", role |-> RoleDeptAdmin]
       [] u = "u3" -> [created_by |-> "u1", department_id |-> "d2", role |-> RoleStaff]
       [] u = "u4" -> [created_by |-> "u1", department_id |-> Null, role |-> RoleStaff]]

\* Two policies that a SuperAdmin has created.
InitRead ==
  /\ users = InitStaff
  /\ departments = InitDepartments
  /\ policies \in {<<p, q>> : p \in StoredPolicies, q \in StoredPolicies}
  /\ versions = <<>>
  /\ acks = <<>>
  /\ tokens = TokensOf(InitStaff)
  /\ req = [s \in Slots |-> Idle]
  /\ Serving

\* One connection updates, lists and gets policies, one request after the other.
NextRead ==
  \/ \E tok \in tokens, op \in {"PolicyUpdate", "PolicyList", "PolicyGet"}, pid \in PolicyTargets :
       Begin("r1", tok, op, pid, Null, Null)
  \/ PolicyUpdateGet("r1", PolicyUpdateBodies({""}, {""}))
  \/ PolicyUpdateWrite("r1")
  \/ PolicyList("r1")
  \/ PolicyListAck("r1")
  \/ PolicyGet("r1")
  \/ Finish("r1")

SpecRead == InitRead /\ [][NextRead]_vars

\* ------------------------------------------------------ claims on reading

\* The policies the visibility rules give a caller.
C11_Visible(role, d) ==
  IF role = RoleSuperAdmin THEN PolicyIds
  ELSE {p \in PolicyIds :
          \/ policies[p].visibility_type = "organization"
          \/ /\ d # Null
             /\ policies[p].visibility_type = "department"
             /\ policies[p].department_id = d}

\* C11: List Policies returns every policy to a SuperAdmin; to a DeptAdmin or
\* Staff caller of department d the organization-wide policies and the
\* department-scoped policies of d; to one of no department the
\* organization-wide policies only.
C11_ListIsVisiblePolicies ==
  \A s \in Slots :
    LET r == req[s] IN
    (r.op = "PolicyList" /\ r.pc = "done" /\ r.role \in validRoles)
    => (r.code = 200 /\ {i.id : i \in r.list} = C11_Visible(r.role, r.dept))

\* The admin of d1 listed a department-scoped policy of d1 and one of d2, and
\* was given the first only.
C11_Witness ==
  \E s \in Slots :
    /\ req[s].op = "PolicyList" /\ req[s].pc = "done"
    /\ req[s].role = RoleDeptAdmin /\ req[s].dept = "d1"
    /\ \E p, q \in PolicyIds :
         /\ policies[p].visibility_type = "department" /\ policies[p].department_id = "d1"
         /\ policies[q].visibility_type = "department" /\ policies[q].department_id = "d2"
         /\ {i.id : i \in req[s].list} = {p}

\* C12: for a caller who is not a SuperAdmin, Get Policy of a stored policy
\* returns 404 exactly when List Policies does not give that policy to the
\* caller, and returns the policy otherwise; a SuperAdmin gets every stored
\* policy.
C12_GetAgreesWithList ==
  \A s \in Slots :
    LET r == req[s] IN
    (r.op = "PolicyGet" /\ r.pc = "done" /\ r.pid \in PolicyIds)
    => /\ r.code \in {200, 404}
       /\ r.code = 404 <=> r.pid \notin ListPoliciesForUser(r.role, r.dept)
       /\ r.code = 200 => r.pol = policies[r.pid]

\* ------------------------------------- specification: a policy's lifecycle

\* The status changes an Update Policy body may ask for, and nothing else.
StatusBodies == {[NoBody EXCEPT !.status = st] : st \in {"Review", "Published", "Archived"}}

\* A policy that Create Policy has just stored: organization-wide, or of d1.
InitLife ==
  /\ users = InitStaff
  /\ departments = InitDepartments
  /\ policies \in {<<CreatePolicy("t1", Null, "organization")>>,
                   <<CreatePolicy("t1", "d1", "department")>>}
  /\ versions = <<>>
  /\ acks = <<>>
  /\ tokens = TokensOf(InitStaff)
  /\ req = [s \in Slots |-> Idle]
  /\ Serving

\* One connection sends requests one after the other: new versions, status
\* changes, acknowledgements by u1 and u3, and reads by everyone.
NextLife ==
  \/ \E tok \in tokens, pid \in PolicyTargets,
        op \in {"PolicyCreateVersion", "PolicyUpdate", "PolicyGet", "PolicyList"} :
       Begin("r1", tok, op, pid, Null, Null)
  \/ \E tok \in {t \in tokens : t.sub \in {"u1", "u3"}}, pid \in PolicyTargets :
       Begin("r1", tok, "PolicyAcknowledge", pid, Null, Null)
  \/ PolicyCreateVersionGet("r1", PolicyCreateVersionBodies)
  \/ PolicyCreateVersionInsert("r1")
  \/ PolicyCreateVersionSetCurrent("r1")
  \/ PolicyUpdateGet("r1", StatusBodies)
  \/ PolicyUpdateWrite("r1")
  \/ PolicyAcknowledge("r1")
  \/ PolicyAcknowledgeHas("r1")
  \/ PolicyAcknowledgeInsert("r1", OneTime)
  \/ PolicyGet("r1")
  \/ PolicyGetVersion("r1")
  \/ PolicyGetAcknowledged("r1")
  \/ PolicyList("r1")
  \/ PolicyListAck("r1")
  \/ Finish("r1")

SpecLife == InitLife /\ [][NextLife]_vars

\* ------------------------------------------------ claims on the lifecycle

\* A step of an Acknowledge request that has read a policy that is not
\* Published or has no current version: it is the response, 400, and the step
\* leaves acknowledgements alone.
C13_Step(s) ==
  LET r == req'[s] IN
  ( /\ r # req[s]
    /\ r.op = "PolicyAcknowledge" /\ r.pol # NoPolicy
    /\ (r.pol.status \in {"Draft", "Review", "Archived"} \/ r.pol.current_version_id = 0) )
  => (r.pc = "done" /\ r.code = 400 /\ acks' = acks)

\* C13: Acknowledge on a policy whose status is Draft, Review or Archived, or
\* that has no current version, returns 400 and creates no acknowledgement,
\* whoever the caller is.
C13_UnpublishedNotAcknowledged == [][\A s \in Slots : C13_Step(s)]_vars

\* A staff member was refused on an archived policy that has a current version.
C13_Witness ==
  \E s \in Slots :
    /\ req[s].op = "PolicyAcknowledge" /\ req[s].pc = "done" /\ req[s].code = 400
    /\ req[s].role = RoleStaff
    /\ req[s].pol.status = "Archived" /\ req[s].pol.current_version_id # 0
    /\ acks = <<>>

\* There is an acknowledgement row of user u for version v.
C14_Row(u, v) ==
  \E i \in DOMAIN acks : acks[i].user_id = u /\ acks[i].policy_version_id = v

\* Get Policy tells its caller acknowledged = true exactly when the caller has
\* acknowledged the current version the response shows.
C14_GetTellsOwnAcknowledgement(r) ==
  (r.op = "PolicyGet" /\ r.pc = "done" /\ r.code = 200)
  => (r.acked <=> (r.pol.current_version_id # 0 /\ C14_Row(r.uid, r.pol.current_version_id)))

\* C14 as stated: once a created policy has a current version, an Acknowledge
\* by u leaves u's acknowledgement of it, and Get Policy then answers
\* acknowledged = true to u and false to a user who has not acknowledged.
C14_AcknowledgeThenGet ==
  \A s \in Slots :
    LET r == req[s] IN
    /\ ( /\ r.op = "PolicyAcknowledge" /\ r.pc = "done"
         /\ r.pol # NoPolicy /\ r.pol.current_version_id # 0 )
       => C14_Row(r.uid, r.pol.current_version_id)
    /\ C14_GetTellsOwnAcknowledgement(r)

\* C14 amended: the same when the policy was Published before the Acknowledge,
\* for the callers Get Policy shows the policy to.
C14_PublishedAcknowledgeThenGet ==
  \A s \in Slots :
    LET r == req[s] IN
    /\ ( /\ r.op = "PolicyAcknowledge" /\ r.pc = "done"
         /\ r.pol # NoPolicy /\ r.pol.current_version_id # 0
         /\ r.pol.status = "Published" )
       => (r.code \in {201, 409} /\ C14_Row(r.uid, r.pol.current_version_id))
    /\ C14_GetTellsOwnAcknowledgement(r)

\* u3 has acknowledged the current version of a published policy and u1 has
\* not: Get Policy answered acknowledged = true to u3.
C14_Witness ==
  \E s \in Slots :
    /\ req[s].op = "PolicyGet" /\ req[s].pc = "done" /\ req[s].code = 200
    /\ req[s].uid = "u3" /\ req[s].acked
    /\ C14_Row("u3", req[s].pol.current_version_id)
    /\ ~C14_Row("u1", req[s].pol.current_version_id)

\* u3 has acknowledged the current version and u1 has not: Get Policy answered
\* acknowledged = false to u1.
C14_WitnessOther ==
  \E s \in Slots :
    /\ req[s].op = "PolicyGet" /\ req[s].pc = "done" /\ req[s].code = 200
    /\ req[s].uid = "u1" /\ ~req[s].acked
    /\ C14_Row("u3", req[s].pol.current_version_id)

\* ------------------------------------------------ claims on Create Policy

\* The step in which connection s gets the response of a Create Policy request.
C15_Responds(s) ==
  /\ req'[s] # req[s]
  /\ req'[s].op = "PolicyCreate" /\ req'[s].pc = "done"

\* The body names organization with a department, or department without one.
C15_Mismatch(b) ==
  \/ DefaultVis(b.visibility_type) = "organization" /\ b.department_id # Null
  \/ DefaultVis(b.visibility_type) = "department" /\ b.department_id = Null

\* The step appends one policy, a Draft with no current version.
C15_StoresDraft(departmentID, visibilityType) ==
  /\ Len(policies') = Len(policies) + 1
  /\ \A p \in PolicyIds : policies'[p] = policies[p]
  /\ LET row == policies'[Len(policies')] IN
     /\ row.status = "Draft" /\ row.current_version_id = 0
     /\ row.department_id = departmentID /\ row.visibility_type = visibilityType

C15_Step(s) ==
  LET r == req'[s]
      b == r.body
  IN (C15_Responds(s) /\ r.role = RoleSuperAdmin /\ ~b.bad /\ DepartmentFK(b.department_id))
     => IF b.title = "" \/ DefaultVis(b.visibility_type) \notin validVis \/ C15_Mismatch(b)
        THEN r.code = 400 /\ policies' = policies
        ELSE r.code = 201 /\ C15_StoresDraft(b.department_id, DefaultVis(b.visibility_type))

\* C15: Create Policy with a title and consistent fields stores a Draft with no
\* current version; with an empty title, a visibility_type that is neither
\* organization nor department, or a visibility_type that does not agree with
\* department_id, it returns 400 and stores no policy.
C15_CreateValidates == [][\A s \in Slots : C15_Step(s)]_vars

C16_WellFormed(b) ==
  ~b.bad /\ b.title # "" /\ DefaultVis(b.visibility_type) \in validVis

\* A DeptAdmin's Create Policy: 201 and a policy of the caller's department,
\* or 403 and nothing stored when the caller has no department.
C16_Outcome(s) ==
  LET r == req'[s] IN
  IF r.dept # Null
  THEN r.code = 201 /\ C15_StoresDraft(r.dept, "department")
  ELSE r.code = 403 /\ policies' = policies

C16_WitnessForbidden ==
  \E s \in Slots :
    /\ req[s].op = "PolicyCreate" /\ req[s].pc = "done" /\ req[s].code = 403
    /\ req[s].role = RoleDeptAdmin /\ req[s].dept = Null
    /\ req[s].body.title # ""

\* --------------------------------------- claims on a superseded version

\* User u has acknowledged the version that policy p has as its current one.
C20_AcknowledgedCurrent(u, p) ==
  /\ policies[p].current_version_id # 0
  /\ HasAcknowledged(u, policies[p].current_version_id)

\* The step that answers a Get Policy, a List Policies or an Acknowledge on
\* connection s: the flags say whether the caller has acknowledged the current
\* version, and an Acknowledge of a published current version that the caller
\* has not acknowledged yet is accepted and stored.
C20_Step(s) ==
  LET r == req'[s] IN
  (r # req[s] /\ r.pc = "done") =>
    /\ (r.op = "PolicyGet" /\ r.code = 200) =>
         (r.acked <=> C20_AcknowledgedCurrent(r.uid, r.pid))
    /\ (r.op = "PolicyList" /\ r.code = 200) =>
         \A item \in r.list :
           item.acknowledged <=> C20_AcknowledgedCurrent(r.uid, item.id)
    /\ ( /\ r.op = "PolicyAcknowledge" /\ GetPolicyFound(r.pid)
         /\ policies[r.pid].status = "Published"
         /\ policies[r.pid].current_version_id # 0
         /\ ~C20_AcknowledgedCurrent(r.uid, r.pid) ) =>
         ( /\ r.code = 201
           /\ acks' = Append(acks, acks'[Len(acks')])
           /\ acks'[Len(acks')].user_id = r.uid
           /\ acks'[Len(acks')].policy_version_id = policies[r.pid].current_version_id )

\* C20: once CreateVersion has made a new version the current one, Get Policy
\* and the flag of List Policies tell every user acknowledged = false, also a
\* user who acknowledged the version before, until that user acknowledges
\* again; and that user's Acknowledge of the new version is answered 201.
C20_NewVersionAsksAgain == [][\A s \in Slots : C20_Step(s)]_vars

\* u3 acknowledged version 1, version 2 became the current one, and u3's
\* Acknowledge of it was answered 201.
C20_Witness ==
  \E s \in Slots :
    /\ req[s].op = "PolicyAcknowledge" /\ req[s].pc = "done" /\ req[s].code = 201
    /\ req[s].uid = "u3" /\ policies[req[s].pid].current_version_id = 2
    /\ HasAcknowledged("u3", 1) /\ HasAcknowledged("u3", 2)

\* u3 acknowledged version 1, version 2 became the current one, and List
\* Policies showed u3 the policy with acknowledged = false.
C20_WitnessList ==
  \E s \in Slots :
    /\ req[s].op = "PolicyList" /\ req[s].pc = "done" /\ req[s].uid = "u3"
    /\ HasAcknowledged("u3", 1) /\ ~HasAcknowledged("u3", 2)
    /\ \E item \in req[s].list : item.current_version_id = 2 /\ ~item.acknowledged

\* ------------------------------------------- specification: the three roles

\* A super admin, the admin of d1 and a staff member of d1.
InitRolesUsers ==
  [u \in {"u1", "u2", "u3"} |->
     CASE u = "u1" -> [created_by |-> Null, department_id |-> Null, role |-> RoleSuperAdmin]
       [] u = "u2" -> [created_by |-> "u1", department_id |-> "d1", role |-> RoleDeptAdmin]
       [] u = "u3" -> [created_by |-> "u1", department_id |-> "d1", role |-> RoleStaff]]

\* One department; no policy yet, or a Published policy with its first version.
InitRoles ==
  /\ users = InitRolesUsers
  /\ departments = [d \in {"d1"} |-> "n1"]
  /\ \/ policies = <<>> /\ versions = <<>>
     \/ /\ policies = <<[CreatePolicy("t1", Null, "organization")
                          EXCEPT !.status = "Published", !.current_version_id = 1]>>
        /\ versions = <<CreatePolicyVersion(1, "c1", "v1", "g1")>>
  /\ acks = <<>>
  /\ tokens = TokensOf(InitRolesUsers)
  /\ req = [s \in Slots |-> Idle]
  /\ Serving

RolesOps ==
  {"PolicyList", "PolicyGet", "PolicyVersions", "PolicyAcknowledge",
   "PolicyCreate", "PolicyUpdate", "PolicyCreateVersion", "UserCreate",
   "DepartmentsCreate", "DepartmentsUpdate", "DepartmentsDelete", "UserUpdate", "UserDelete"}

RolesPolicyBodies ==
  {[NoBody EXCEPT !.title = "t1", !.visibility_type = "organization", !.department_id = d] :
     d \in {Null, "d2"}}

RolesStatusBodies == {[NoBody EXCEPT !.status = "Archived"]}

RolesVersionBodies ==
  {[NoBody EXCEPT !.content = "c2", !.version_string = "v2", !.changelog = "g2"]}

\* What the super admin does here: it takes the admin's department away, deletes
\* the admin, and opens a second department.
RolesSetUpOps == {"UserUpdate", "UserDelete", "DepartmentsCreate"}

\* One connection sends requests one after the other: the admin and the staff
\* member try every route, the super admin sets the store up for them.
NextRoles ==
  \/ \E tok \in {t \in tokens : t.role # RoleSuperAdmin}, op \in RolesOps :
       Begin("r1", tok, op, 1, "u3", "d1")
  \/ \E tok \in {t \in tokens : t.role = RoleSuperAdmin}, op \in RolesSetUpOps :
       Begin("r1", tok, op, 1, "u2", Null)
  \/ PolicyList("r1")
  \/ PolicyListAck("r1")
  \/ PolicyGet("r1")
  \/ PolicyGetVersion("r1")
  \/ PolicyGetAcknowledged("r1")
  \/ PolicyVersions("r1")
  \/ PolicyAcknowledge("r1")
  \/ PolicyAcknowledgeHas("r1")
  \/ PolicyAcknowledgeInsert("r1", OneTime)
  \/ PolicyCreate("r1", RolesPolicyBodies)
  \/ PolicyUpdateGet("r1", RolesStatusBodies)
  \/ PolicyUpdateWrite("r1")
  \/ PolicyCreateVersionGet("r1", RolesVersionBodies)
  \/ PolicyCreateVersionInsert("r1")
  \/ PolicyCreateVersionSetCurrent("r1")
  \/ UserCreate("r1", UserCreateBodies({"", RoleSuperAdmin}, {Null, "d2"}))
  \/ UserUpdateGet("r1", UserUpdateBodies({RoleDeptAdmin}, {Null}))
  \/ UserUpdateWrite("r1")
  \/ UserDeleteGet("r1")
  \/ UserDeleteWrite("r1")
  \/ DepartmentsCreate("r1", DepartmentsBodies({"n2"}))
  \/ Finish("r1")

SpecRoles == InitRoles /\ [][NextRoles]_vars

\* ------------------------------------------------- claims on the roles

\* The step adds nothing to the store but, at most, one acknowledgement of uid.
C17_OnlyOwnAcknowledgement(uid) ==
  /\ users' = users /\ departments' = departments
  /\ policies' = policies /\ versions' = versions
  /\ \/ acks' = acks
     \/ /\ Len(acks') = Len(acks) + 1
        /\ SubSeq(acks', 1, Len(acks)) = acks
        /\ acks'[Len(acks')].user_id = uid

\* The step leaves the users alone or adds one user, not a SuperAdmin, of
\* department dept.
C17_OnlyOwnDepartmentUser(dept) ==
  \/ users' = users
  \/ \E id \in DOMAIN users' \ DOMAIN users :
       /\ DOMAIN users' = DOMAIN users \cup {id}
       /\ \A u \in DOMAIN users : users'[u] = users[u]
       /\ users'[id].role # RoleSuperAdmin
       /\ users'[id].department_id = dept

\* A step of the request on connection s, by the role the request carries.
C17_Step(s) ==
  LET r == req'[s] IN
  /\ (r # req[s] /\ r.role = RoleStaff) => C17_OnlyOwnAcknowledgement(r.uid)
  /\ (r # req[s] /\ r.role = RoleDeptAdmin) =>
       (departments' = departments /\ C17_OnlyOwnDepartmentUser(r.dept))

\* C17: no request carrying role Staff changes the store other than by inserting
\* an acknowledgement for the caller; no request carrying role DeptAdmin creates,
\* updates or deletes a department, updates or deletes a user, creates a user
\* with role SuperAdmin, or creates a user of another department than the
\* caller's.
C17_RolesKeepToTheirRoutes == [][\A s \in Slots : C17_Step(s)]_vars

\* The admin of d1 has asked for a user of another department and has got one
\* of d1, after the staff member has acknowledged the policy.
C17_Witness ==
  \E s \in Slots :
    LET r == req[s] IN
    /\ r.op = "UserCreate" /\ r.pc = "done" /\ r.code = 201
    /\ r.role = RoleDeptAdmin /\ r.dept = "d1" /\ r.body.department_id # "d1"
    /\ users[r.tuid].department_id = "d1" /\ users[r.tuid].role = RoleStaff
    /\ \E i \in DOMAIN acks : acks[i].user_id = "u3"

\* --------------------------- specification: requests for ids of no row

\* Two super admins and a staff member; u4 is the id of no user.
InitMissingUsers ==
  [u \in {"u1", "u2", "u3"} |->
     CASE u = "u1" -> [created_by |-> Null, department_id |-> Null, role |-> RoleSuperAdmin]
       [] u = "u2" -> [created_by |-> Null, department_id |-> Null, role |-> RoleSuperAdmin]
       [] u = "u3" -> [created_by |-> Null, department_id |-> "d1", role |-> RoleStaff]]

\* One department (d2 is the id of none) and one Published policy with its
\* first version (2 is the id of no policy).
InitMissing ==
  /\ users = InitMissingUsers
  /\ departments = [d \in {"d1"} |-> "n1"]
  /\ policies = <<[CreatePolicy("t1", Null, "organization")
                     EXCEPT !.status = "Published", !.current_version_id = 1]>>
  /\ versions = <<CreatePolicyVersion(1, "c1", "v1", "g1")>>
  /\ acks = <<>>
  /\ tokens = {t \in TokensOf(InitMissingUsers) : t.sub = "u1"}
  /\ req = [s \in Slots |-> Idle]
  /\ Serving

\* The operations that are addressed to a policy, to a user, to a department.
PolicyIdOps ==
  {"PolicyGet", "PolicyVersions", "PolicyAcknowledge", "PolicyUpdate", "PolicyCreateVersion"}
UserIdOps == {"UserUpdate", "UserDelete"}
DepartmentIdOps == {"DepartmentsUpdate", "DepartmentsDelete"}

\* The super admin u1 sends, one after the other, requests addressed to ids
\* that have a row and to ids that have none.
NextMissing ==
  \/ \E tok \in tokens, op \in PolicyIdOps, pid \in PolicyTargets :
       Begin("r1", tok, op, pid, Null, Null)
  \/ \E tok \in tokens, op \in UserIdOps, tuid \in {"u2", "u3", "u4"} :
       Begin("r1", tok, op, 0, tuid, Null)
  \/ \E tok \in tokens, op \in DepartmentIdOps, tdid \in DeptIds :
       Begin("r1", tok, op, 0, Null, tdid)
  \/ PolicyGet("r1")
  \/ PolicyGetVersion("r1")
  \/ PolicyGetAcknowledged("r1")
  \/ PolicyVersions("r1")
  \/ PolicyAcknowledge("r1")
  \/ PolicyAcknowledgeHas("r1")
  \/ PolicyAcknowledgeInsert("r1", OneTime)
  \/ PolicyUpdateGet("r1", RolesStatusBodies)
  \/ PolicyUpdateWrite("r1")
  \/ PolicyCreateVersionGet("r1", RolesVersionBodies)
  \/ PolicyCreateVersionInsert("r1")
  \/ PolicyCreateVersionSetCurrent("r1")
  \/ UserUpdateGet("r1", UserUpdateBodies({RoleStaff}, {Null}))
  \/ UserUpdateCount("r1")
  \/ UserUpdateWrite("r1")
  \/ UserDeleteGet("r1")
  \/ UserDeleteCount("r1")
  \/ UserDeleteWrite("r1")
  \/ DepartmentsUpdateGet("r1", DepartmentsBodies({"", "n2"}))
  \/ DepartmentsUpdateWrite("r1")
  \/ DepartmentsUpdateRead("r1")
  \/ DepartmentsDeleteGet("r1")
  \/ DepartmentsDeleteHas("r1")
  \/ DepartmentsDeleteWrite("r1")
  \/ Finish("r1")

SpecMissing == InitMissing /\ [][NextMissing]_vars

\* ------------------------------------------- claims on ids of no row

\* The request on connection s is at the start of its handler and the id it is
\* addressed to has no row.
C18_Missing(r) ==
  /\ r.pc = r.op
  /\ \/ r.op \in PolicyIdOps /\ ~GetPolicyFound(r.pid)
     \/ r.op \in UserIdOps /\ ~GetUserFound(r.tuid)
     \/ r.op \in DepartmentIdOps /\ ~GetDepartmentFound(r.tdid)

\* The handler's step on such a request: the response 404, the store as it was.
C18_Step(s) ==
  (C18_Missing(req[s]) /\ req'[s] # req[s]) =>
    (req'[s].pc = "done" /\ req'[s].code = 404 /\ store' = store)

\* C18: every operation addressed to an id that does not exist returns 404 and
\* changes nothing: Get Policy, List Versions, Acknowledge, Update Policy and
\* CreateVersion for a policy id, Update and Delete User for a user id, Update
\* and Delete Department for a department id.
C18_MissingIdIsNotFound == [][\A s \in Slots : C18_Step(s)]_vars

\* ------------------------------------------- claims on the signature hash

\* The digest computed anew from the three stored fields of a row.
C19_Recomputed(row) ==
  Sum256(SignatureInput(row.user_id, row.policy_version_id,
                        TimeString(parseTime(row.timestamp))))

\* Another value in one of the three stored fields gives another digest.
C19_TamperEvident(row) ==
  /\ \A u \in UserIds \ {row.user_id} :
       C19_Recomputed([row EXCEPT !.user_id = u]) # C19_Recomputed(row)
  /\ \A v \in (1 .. MaxVersions) \ {row.policy_version_id} :
       C19_Recomputed([row EXCEPT !.policy_version_id = v]) # C19_Recomputed(row)
  /\ \A t \in {ts.sec : ts \in Times} \ {row.timestamp} :
       C19_Recomputed([row EXCEPT !.timestamp = t]) # C19_Recomputed(row)

\* C19: the signature_hash stored with an acknowledgement is the digest of the
\* row's stored user_id, policy_version_id and timestamp: computing it anew from
\* the three stored fields gives the stored signature_hash, and changing any one
\* of the three changes the digest.
C19_SignatureOfStoredFields ==
  \A i \in DOMAIN acks :
    /\ C19_Recomputed(acks[i]) = acks[i].signature_hash
    /\ C19_TamperEvident(acks[i])

\* ------------------------- specification: reads of another department's policy

\* Policy 1 is the policy of department d2, policy 2 is organization-wide; both
\* are Published with one version, and u3 of d2 has acknowledged policy 1.
InitLeak ==
  /\ users = InitStaff
  /\ departments = InitDepartments
  /\ policies = <<[CreatePolicy("t1", "d2", "department")
                     EXCEPT !.status = "Published", !.current_version_id = 1],
                  [CreatePolicy("t1", Null, "organization")
                     EXCEPT !.status = "Published", !.current_version_id = 2]>>
  /\ versions = <<CreatePolicyVersion(1, "c1", "v1", "g1"), CreatePolicyVersion(2, "c1", "v1", "g1")>>
  /\ \E ts \in OneTime : acks = <<CreateAcknowledgement("u3", 1, ts)>>
  /\ tokens = {t \in TokensOf(InitStaff) : t.sub \in {"u2", "u4"}}
  /\ req = [s \in Slots |-> Idle]
  /\ Serving

ReadOps == {"PolicyList", "PolicyGet", "PolicyVersions", "AdminStats"}

\* The steps of the read handlers on connection s.
ReadSteps(s) ==
  \/ PolicyList(s)
  \/ PolicyListAck(s)
  \/ PolicyGet(s)
  \/ PolicyGetVersion(s)
  \/ PolicyGetAcknowledged(s)
  \/ PolicyVersions(s)
  \/ AdminStats(s)
  \/ AdminStatsList(s)
  \/ AdminStatsAcks(s)

\* The other store state: the same rows but for the title of policy 1 and the
\* content of its version, the texts of a policy of department d2.
OtherStore ==
  /\ req["r1"].pc = "done" /\ req["r2"].pc = "idle"
  /\ policies[1].title = "t1" /\ versions[1].content = "c1"
  /\ \E t \in {"t1", "t2"}, c \in {"c1", "c2"} :
       /\ <<t, c>> # <<"t1", "c1">>
       /\ policies' = [policies EXCEPT ![1].title = t]
       /\ versions' = [versions EXCEPT ![1].content = c]
  /\ UNCHANGED <<users, departments, acks, tokens, req, migration>>

\* The admin of d1 or the staff member of no department sends a read request
\* on connection r1 and, once it is answered, the same request on r2.
NextLeak ==
  \/ \E tok \in tokens, op \in ReadOps, pid \in PolicyIds :
       Begin("r1", tok, op, pid, Null, Null)
  \/ ReadSteps("r1")
  \/ OtherStore
  \/ \E tok \in tokens :
       /\ req["r1"].pc = "done" /\ tok.sub = req["r1"].uid
       /\ Begin("r2", tok, req["r1"].op, req["r1"].pid, Null, Null)
  \/ ReadSteps("r2")

SpecLeak == InitLeak /\ [][NextLeak]_vars

\* ----------------------------------- claims on another department's policy

\* What the client is sent: the status code and the body.
C21_Response(r) ==
  [acked |-> r.acked, code |-> r.code, content |-> r.content,
   list |-> IF r.op = "AdminStats"
            THEN {[ack_count |-> i.ack_count, policy_id |-> i.policy_id, title |-> i.title] :
                    i \in r.list}
            ELSE r.list,
   pol |-> r.pol, stats |-> r.stats]

\* C21: a caller with role Staff or DeptAdmin gets the same response from List
\* Policies, Get Policy, List Versions and Admin Stats in two store states that
\* differ only in the title and the version content of a department-scoped
\* policy of another department than the caller's.
C21_ForeignPolicyTextsHidden ==
  ( /\ req["r1"].pc = "done" /\ req["r2"].pc = "done"
    /\ req["r1"].op = req["r2"].op /\ req["r1"].uid = req["r2"].uid
    /\ req["r1"].pid = req["r2"].pid )
  => C21_Response(req["r1"]) = C21_Response(req["r2"])

\* ------------------------------------- claims on organization-wide policies

\* A step of a DeptAdmin's request on connection s leaves every policy that is
\* organization-wide as it is.
C22_Step(s) ==
  (req'[s] # req[s] /\ req'[s].role = RoleDeptAdmin) =>
    \A p \in PolicyIds :
      policies[p].visibility_type = "organization" => policies'[p] = policies[p]

\* C22: no request by a DeptAdmin changes the title, status, visibility_type,
\* department_id or current_version_id of a policy that is organization-wide
\* at the time of the request.
C22_OrganizationPoliciesKept == [][\A s \in Slots : C22_Step(s)]_vars

\* ------------------------------ specification: overlapping CreateVersion

\* One organization-wide policy without a version; the session of the super admin.
InitOverlap ==
  /\ users = InitUsers
  /\ departments = InitDepartments
  /\ policies = <<CreatePolicy("t1", Null, "organization")>>
  /\ versions = <<>>
  /\ acks = <<>>
  /\ tokens = {t \in TokensOf(InitUsers) : t.role = RoleSuperAdmin}
  /\ req = [s \in Slots |-> Idle]
  /\ Serving

\* Both connections send CreateVersion requests for the policy; their
\* statements interleave.
NextOverlap ==
  \/ \E s \in Slots, tok \in tokens : Begin(s, tok, "PolicyCreateVersion", 1, Null, Null)
  \/ \E s \in Slots : PolicyCreateVersionGet(s, PolicyCreateVersionBodies)
  \/ \E s \in Slots : PolicyCreateVersionInsert(s)
  \/ \E s \in Slots : PolicyCreateVersionSetCurrent(s)
  \/ \E s \in Slots : Finish(s)

SpecOverlap == InitOverlap /\ [][NextOverlap]_vars

\* ------------------------------------- claims on overlapping CreateVersion

\* A CreateVersion request on policy p has been received and not answered yet.
C23_InProgress(p) ==
  \E s \in Slots :
    req[s].op = "PolicyCreateVersion" /\ req[s].pid = p /\ req[s].pc \notin {"idle", "done"}

\* C23: whenever no CreateVersion request is in progress on a policy that has
\* at least one version, the policy's current_version_id is the id of the most
\* recently inserted version of that policy, also after two CreateVersion
\* requests on the policy overlapped.
C23_CurrentIsNewest ==
  \A p \in PolicyIds :
    (~C23_InProgress(p) /\ ListPolicyVersions(p) # {})
    => policies[p].current_version_id = Newest(ListPolicyVersions(p))

\* ------------------------------- claims on who acknowledges which policy

\* The policy that owns version v is shown to user u: u is a SuperAdmin, or the
\* policy is organization-wide, or it is department-scoped to u's department.
C24_VisibleTo(u, v) ==
  LET p == policies[versions[v].policy_id] IN
  \/ users[u].role = RoleSuperAdmin
  \/ p.visibility_type = "organization"
  \/ /\ p.visibility_type = "department"
     /\ users[u].department_id # Null
     /\ p.department_id = users[u].department_id

\* A step that inserts an acknowledgement inserts one of a visible policy.
C24_Step ==
  Len(acks') > Len(acks) =>
    LET a == acks'[Len(acks')] IN C24_VisibleTo(a.user_id, a.policy_version_id)

\* C24: an acknowledgement row (u, v) is only ever created when the policy that
\* owns version v is visible to user u at that time.
C24_AcknowledgedOnlyIfVisible == [][C24_Step]_vars

\* --------------------------------------- claims on the frame of Update User

\* The write of an Update User request on connection s: a department_id the
\* body leaves out stays as stored, and so does a role the body leaves out
\* (the handler has put the stored role in its place).
C25_Step(s) ==
  LET r == req[s] IN
  (r.pc = "UserUpdateWrite" /\ req'[s] # r /\ GetUserFound(r.tuid)) =>
    /\ r.body.department_id = Null =>
         users'[r.tuid].department_id = users[r.tuid].department_id
    /\ r.body.role = r.tgt.role => users'[r.tuid].role = users[r.tuid].role

\* C25: Update User with a body that omits a field leaves that field of the
\* target user unchanged; a request that omits department_id leaves the
\* user's department_id as it was.
C25_OmittedFieldsKept == [][\A s \in Slots : C25_Step(s)]_vars

\* ------------------- specification: Acknowledge overlapping the authors

\* A Published organization-wide policy with its first version.
InitAckOverlap ==
  /\ users = InitStaff
  /\ departments = InitDepartments
  /\ policies = <<[CreatePolicy("t1", Null, "organization")
                     EXCEPT !.status = "Published", !.current_version_id = 1]>>
  /\ versions = <<CreatePolicyVersion(1, "c1", "v1", "g1")>>
  /\ acks = <<>>
  /\ tokens = {t \in TokensOf(InitStaff) : t.sub \in {"u1", "u3"}}
  /\ req = [s \in Slots |-> Idle]
  /\ Serving

\* The staff member u3 acknowledges on connection r1 while the super admin u1
\* changes the status or adds a version on connection r2.
NextAckOverlap ==
  \/ \E tok \in {t \in tokens : t.sub = "u3"} :
       Begin("r1", tok, "PolicyAcknowledge", 1, Null, Null)
  \/ PolicyAcknowledge("r1")
  \/ PolicyAcknowledgeHas("r1")
  \/ PolicyAcknowledgeInsert("r1", OneTime)
  \/ Finish("r1")
  \/ \E tok \in {t \in tokens : t.sub = "u1"}, op \in {"PolicyUpdate", "PolicyCreateVersion"} :
       Begin("r2", tok, op, 1, Null, Null)
  \/ PolicyUpdateGet("r2", StatusBodies)
  \/ PolicyUpdateWrite("r2")
  \/ PolicyCreateVersionGet("r2", RolesVersionBodies)
  \/ PolicyCreateVersionInsert("r2")
  \/ PolicyCreateVersionSetCurrent("r2")
  \/ Finish("r2")

SpecAckOverlap == InitAckOverlap /\ [][NextAckOverlap]_vars

\* ----------------------------- claims on Acknowledge overlapping the authors

\* A step that inserts an acknowledgement inserts it for the version that is,
\* at that moment, the current one of its policy, and the policy is Published.
C26_Step ==
  Len(acks') > Len(acks) =>
    LET a == acks'[Len(acks')]
        p == policies[versions[a.policy_version_id].policy_id]
    IN p.status = "Published" /\ p.current_version_id = a.policy_version_id

\* C26: every acknowledgement row is created against a version that, at the
\* moment of the insert, is the current version of a policy whose status is
\* Published, also when the Acknowledge request overlaps an Update Policy or a
\* CreateVersion on the same policy.
C26_AcknowledgedCurrentPublished == [][C26_Step]_vars

\* ------------------------------------------- claims on stale sessions

\* The request that connection s receives in this step is refused by the
\* middleware.
C27_Refused(s) == req'[s].pc = "done" /\ req'[s].code \in {401, 403}

\* The arrival of a request on connection s: one for a SuperAdmin-only
\* operation is refused unless its user is stored as a SuperAdmin, and one of
\* a user that is not stored is refused.
C27_Step(s) ==
  (req[s].pc = "idle" /\ req'[s] # req[s]) =>
    LET r == req'[s] IN
    /\ (r.op \in SuperAdminRoutes /\ GetUserFound(r.uid)
          /\ GetUserByID(r.uid).role # RoleSuperAdmin) => C27_Refused(s)
    /\ ~GetUserFound(r.uid) => C27_Refused(s)

\* C27: every authorization decision uses the caller's role and existence as
\* stored: after a user has been demoted from SuperAdmin no later request of
\* that user is accepted on a SuperAdmin-only operation, and after a user has
\* been deleted no later request of that user is accepted, while the session
\* token issued before the change is presented.
C27_StoredRoleDecides == [][\A s \in Slots : C27_Step(s)]_vars

\* --------------------------- specification: authors of two policies overlap

\* Two policies without versions, as two Create Policy requests leave them.
InitCurrent ==
  /\ users = InitUsers
  /\ departments = InitDepartments
  /\ policies = <<CreatePolicy("t1", Null, "organization"), CreatePolicy("t1", "d1", "department")>>
  /\ versions = <<>>
  /\ acks = <<>>
  /\ tokens = {t \in TokensOf(InitUsers) : t.role = RoleSuperAdmin}
  /\ req = [s \in Slots |-> Idle]
  /\ Serving

\* Both connections send Update Policy and CreateVersion requests for either
\* policy; their statements interleave.
NextCurrent ==
  \/ \E s \in Slots, tok \in tokens, op \in {"PolicyUpdate", "PolicyCreateVersion"},
        pid \in PolicyIds : Begin(s, tok, op, pid, Null, Null)
  \/ \E s \in Slots : PolicyUpdateGet(s, RolesStatusBodies)
  \/ \E s \in Slots : PolicyUpdateWrite(s)
  \/ \E s \in Slots : PolicyCreateVersionGet(s, RolesVersionBodies)
  \/ \E s \in Slots : PolicyCreateVersionInsert(s)
  \/ \E s \in Slots : PolicyCreateVersionSetCurrent(s)
  \/ \E s \in Slots : Finish(s)

SpecCurrent == InitCurrent /\ [][NextCurrent]_vars

\* --------------------------------------- claims on the current version

\* The current version of every policy is unset or a stored version of that
\* policy.
C28_CurrentOfOwnPolicy ==
  \A p \in PolicyIds :
    LET cur == policies[p].current_version_id IN
    cur = 0 \/ (cur \in VersionIds /\ versions[cur].policy_id = p)

\* A step keeps every stored version row as it is.
C28_VersionsKept ==
  /\ Len(versions') >= Len(versions)
  /\ \A v \in VersionIds : versions'[v] = versions[v]

\* C28: in every reachable state each policy's current_version_id is null or
\* the id of an existing version whose policy_id is that policy's id, and no
\* operation deletes a version or changes its policy_id, content,
\* version_string or changelog.
C28_CurrentVersionIsOwnAndKept == [](C28_CurrentOfOwnPolicy) /\ [][C28_VersionsKept]_vars

\* Both policies have a current version while an Update Policy has rewritten
\* one of them.
C28_Witness ==
  /\ \A p \in PolicyIds : policies[p].current_version_id # 0
  /\ \E p \in PolicyIds : policies[p].status = "Archived"
  /\ Len(versions) = 2

\* ------------------------------- specification: the status of a policy

\* A Draft policy of department d1, as a Create Policy request leaves it.
InitStatus ==
  /\ users = InitUsers
  /\ departments = InitDepartments
  /\ policies = <<CreatePolicy("t1", "d1", "department")>>
  /\ versions = <<>>
  /\ acks = <<>>
  /\ tokens = {t \in TokensOf(InitUsers) : t.sub \in {"u1", "u2", "u3"}}
  /\ req = [s \in Slots |-> Idle]
  /\ Serving

\* Bodies carrying a status, of the four valid ones or not, with department_id
\* omitted or naming no department.
StatusInputs ==
  {[NoBody EXCEPT !.status = st, !.department_id = d] :
     st \in validStatuses \cup {"bogus"}, d \in {Null, "dx"}}

\* The super admin, the admin of d1 and the admin of d2 send Update Policy
\* requests on both connections; their statements interleave.
NextStatus ==
  \/ \E s \in Slots, tok \in tokens : Begin(s, tok, "PolicyUpdate", 1, Null, Null)
  \/ \E s \in Slots : PolicyUpdateGet(s, StatusInputs)
  \/ \E s \in Slots : PolicyUpdateWrite(s)
  \/ \E s \in Slots : Finish(s)

SpecStatus == InitStatus /\ [][NextStatus]_vars

\* ------------------------------------------------ claims on the status

C29_StatusValid == \A p \in PolicyIds : policies[p].status \in validStatuses

\* The Update Policy request on connection s is answered in this step, its
\* caller having passed the department guard.
C29_Answered(s) ==
  /\ req[s].op = "PolicyUpdate" /\ req[s].pc \notin {"idle", "done"} /\ req'[s].pc = "done"
  /\ req'[s].pol # NoPolicy
  /\ ~PolicyUpdateForbidden(req'[s].role, req'[s].dept, req'[s].pol)
  /\ ~req'[s].body.bad

\* A status of the set is stored with 200; one outside it is answered 400 and
\* nothing is stored.
C29_StepAsStated(s) ==
  C29_Answered(s) =>
    LET r == req'[s] IN
    /\ r.body.status \in validStatuses =>
         r.code = 200 /\ policies'[r.pid].status = r.body.status
    /\ r.body.status \notin validStatuses \cup {""} =>
         r.code = 400 /\ UNCHANGED store

\* The same, for a request whose write names an existing department or none.
C29_Step(s) ==
  C29_Answered(s) =>
    LET r == req'[s]
        e == PolicyUpdateEffective(r.role, r.dept, r.pol, r.body)
    IN
    /\ (r.body.status \in validStatuses /\ DepartmentFK(e.department_id)) =>
         r.code = 200 /\ policies'[r.pid].status = r.body.status
    /\ (r.body.status \in validStatuses /\ ~DepartmentFK(e.department_id)) =>
         r.code = 500 /\ UNCHANGED store
    /\ r.body.status \notin validStatuses \cup {""} =>
         r.code = 400 /\ UNCHANGED store

InitMigrate ==
  /\ users = [u \in {"u1"} |-> [created_by |-> Null, department_id |-> Null, role |-> "Admin"]]
  /\ departments = [d \in {} |-> "n1"]
  /\ policies = <<>>
  /\ versions = <<>>
  /\ acks = <<>>
  /\ tokens = {}
  /\ req = [s \in Slots |-> Idle]
  /\ schema = {}
  /\ schema_migrations = {}
  /\ executed = [n \in MigrationNames |-> 0]
  /\ migrate = Stopped("none")

\* The process starts, runs Migrate statement by statement, and may be killed
\* and started again.
NextMigrate ==
  \/ MigrateStart
  \/ MigrateCreateTable
  \/ MigrateSelect
  \/ MigrateExec
  \/ MigrateInsert
  \/ MigrateCrash

SpecMigrate == InitMigrate /\ [][NextMigrate]_vars

\* --------------------------------------------------- claims on Migrate

\* The statement of every migration has been executed at most once.
C30_AtMostOnce == \A n \in MigrationNames : executed[n] <= 1

\* A step that executes the statement of the i-th migration finds every
\* earlier migration executed and recorded.
C30_InOrder ==
  \A i \in MigrationIds :
    executed'[allMigrations[i].name] > executed[allMigrations[i].name] =>
      \A k \in 1 .. (i - 1) :
        /\ executed[allMigrations[k].name] >= 1
        /\ allMigrations[k].name \in schema_migrations

\* A step on a fully migrated database changes neither the schema nor a row.
C30_MigratedKept ==
  schema_migrations = MigrationNames =>
    UNCHANGED <<store, schema, schema_migrations, executed>>

\* C30: over any sequence of Migrate invocations on one database, where an
\* invocation may stop after any statement because of an error or a crash,
\* each migration's SQL is executed at most once, migrations are executed in
\* list order, a migration is never executed unless every earlier migration has
\* been executed and recorded in schema_migrations, and a Migrate invocation on
\* a fully migrated database changes nothing.
C30_EachMigrationOnce ==
  [](C30_AtMostOnce) /\ [][C30_InOrder /\ C30_MigratedKept]_vars

====
